---- MODULE Spec2Model ----
(***************************************************************************)
(* Acquisition-and-caching engine of the Thai gold price service           *)
(* (src/app.py, src/scraper_api.py, src/scraper_goldtraders.py).           *)
(*                                                                         *)
(* Every block guarded by data_lock in the source is one atomic action;    *)
(* the statements a handler runs outside the lock (the network call, the   *)
(* length test before a flush) are steps of their own, so that the         *)
(* scheduler thread, the start-up thread and a request thread interleave   *)
(* exactly where the source lets them.                                     *)
(*                                                                         *)
(* Representation.  An optional value (Python None, a missing key, the     *)
(* empty dict) is the empty sequence <<>> and a present value v is <<v>>.  *)
(* A clock reading is a number of seconds since a Monday 00:00:00.  An     *)
(* "HH:MM" text is the pair <<HH, MM>>.  The server's local zone is taken  *)
(* to be the zone of THAI_TZ, so datetime.now() and datetime.now(THAI_TZ)  *)
(* read the same wall clock.                                               *)
(***************************************************************************)
EXTENDS Integers, Sequences, FiniteSets, TLC

VARIABLES
    now,                  \* wall clock, seconds
    current_price,        \* app.py:40, <<>> or <<record>>
    price_history,        \* app.py:41, oldest first
    adaptive_settings,    \* app.py:46
    wp_api_settings,      \* app.py:55
    gold_source_settings, \* app.py:59
    quiet_hours_settings, \* app.py:64
    job_interval,         \* period of the scheduler's 'gold_price_fetch' job
    scheduler_running,    \* scheduler.running
    history_file,         \* HISTORY_FILE: <<>> absent, <<"corrupt">>, or <<list>>
    pc,                   \* position of each thread
    result,               \* fetch_gold_prices_job's local `result` per thread
    response,             \* last HTTP response handed out per request thread
    request,              \* body or query of the last request parsed, per request thread
    invoked,              \* per thread, the adapters its orchestrator run called,
                          \* in order, each with the record it returned
    calls,                \* orchestrator runs so far
    budget,               \* orchestrator runs the exploration allows
    script                \* the announcement numbers successive successful fetches
                          \* find upstream (seq) and how many were fetched (pos);
                          \* with seq empty upstream is free, otherwise no fetch
                          \* is explored past the end of seq

vars == <<now, current_price, price_history, adaptive_settings,
          wp_api_settings, gold_source_settings, quiet_hours_settings,
          job_interval, scheduler_running, history_file, pc, result,
          response, request, invoked, calls, budget, script>>

store == <<current_price, price_history, adaptive_settings, wp_api_settings,
           gold_source_settings, quiet_hours_settings, job_interval,
           scheduler_running, history_file>>

----------------------------------------------------------------------------
\* Bounds of the exploration

\* stands for the deque's maxlen (1440 in app.py:41), scaled so that the
\* buffer fills; like 1440 it is a multiple of the flush period
HistoryCap == 10
\* orchestrator runs explored under Spec
MaxFetches == 2
\* clock steps of ten seconds explored
MaxAdvance == 3

----------------------------------------------------------------------------
\* Program constants

STALE_THRESHOLD_MINUTES == 30
RateLimitSeconds == 30
FlushEvery == 10
DefaultBaseInterval == 120
DefaultLimit == 60

SOURCE_API == "api"
SOURCE_SCRAPER == "scraper"
SOURCE_AUTO == "auto"

Threads == {"main", "sched", "req"}
Requesters == {"req"}

----------------------------------------------------------------------------
\* Clock arithmetic (datetime)

DaySeconds == 24 * 3600
MinuteOfDay(t) == (t \div 60) % (24 * 60)
HourOf(t) == (t \div 3600) % 24
WeekdayOf(t) == (t \div DaySeconds) % 7
DateOf(t) == t \div DaySeconds
HHMM(t) == <<HourOf(t), MinuteOfDay(t) % 60>>
ClockAt(day, h, m, s) == day * DaySeconds + h * 3600 + m * 60 + s

\* the process starts on a Friday twenty seconds before the default quiet
\* window opens
BootTime == ClockAt(4, 17, 59, 40)

----------------------------------------------------------------------------
\* Quiet-hours gate (app.py:94-118)

Window(enabled, start, end) == [enabled |-> enabled, start |-> start, end |-> end]

DefaultQuietHours ==
    [enabled |-> TRUE,
     weekday |-> Window(TRUE, <<18, 0>>, <<8, 0>>),
     weekend |-> Window(TRUE, <<18, 0>>, <<8, 0>>)]

\* map(int, text.split(":")) followed by h * 60 + m
ParseMinutes(text) == text[1] * 60 + text[2]

\* a gate that forgets the wrap past midnight
IsQuietAt_NoWrap(qh, t) ==
    LET config == IF WeekdayOf(t) < 5 THEN qh.weekday ELSE qh.weekend
    IN  /\ qh.enabled
        /\ config.enabled
        /\ ParseMinutes(config.start) <= MinuteOfDay(t)
        /\ MinuteOfDay(t) < ParseMinutes(config.end)

IsQuietAt(qh, t) ==
    IF ~qh.enabled THEN FALSE
    ELSE LET current_time == HourOf(t) * 60 + (MinuteOfDay(t) % 60)
             config == IF WeekdayOf(t) < 5 THEN qh.weekday ELSE qh.weekend
         IN  IF ~config.enabled THEN FALSE
             ELSE LET start_mins == ParseMinutes(config.start)
                      end_mins == ParseMinutes(config.end)
                  IN  IF start_mins > end_mins
                      THEN current_time >= start_mins \/ current_time < end_mins
                      ELSE start_mins <= current_time /\ current_time < end_mins

is_quiet_hours == IsQuietAt(quiet_hours_settings, now)

\* A window as a client may post it: start or end may be missing or hold no
\* HH:MM, written <<>>.  Lines 111-112 then raise, when the gate gets as far
\* as the window of the day.
GateFails(qh, t) ==
    LET config == IF WeekdayOf(t) < 5 THEN qh.weekday ELSE qh.weekend
    IN  /\ qh.enabled
        /\ config.enabled
        /\ (config.start = <<>> \/ config.end = <<>>)

----------------------------------------------------------------------------
\* Source adapters (scraper_api.py:30-122, scraper_goldtraders.py:16-85)

Abs(x) == IF x < 0 THEN 0 - x ELSE x

ChangeOf(delta) ==
    [amount |-> Abs(delta),
     direction |-> IF delta < 0 THEN "down" ELSE IF delta > 0 THEN "up" ELSE "unchanged"]

NoChange == [amount |-> 0, direction |-> "unchanged"]

NoPrices == [buy |-> <<>>, sell |-> <<>>]

\* What upstream publishes with each announcement number: the quotes and the
\* deltas the primary API reports with them.  Announcement 7, met only where
\* the local derivation of the deltas is examined, is reported with its
\* barChange and without a barChangeToday.
Announcements == {5, 6}
BarSell(cc) == cc * 100
BarChange(cc) == IF cc = 5 THEN 0 ELSE 100
BarChangeToday(cc) == IF cc = 6 THEN 100 ELSE 0

\* minutes between an announcement and the call that reads it
ReplyAges == {0, 30, 45}

\* A reply of the primary API: failed, or announcement `annouce` whose
\* publication time lies `age` minutes before the call.  The "time" field of
\* the reply holds that time ("clock"), is missing ("none"), or holds a text
\* without HH:MM in it ("words").
ApiReplies ==
    {[ok |-> FALSE, annouce |-> 0, age |-> 0, time |-> "clock"]}
        \cup [ok : {TRUE}, annouce : Announcements, age : ReplyAges, time : {"clock"}]

\* Replies of the primary API for the staleness test: failed, or
\* announcement 6 with a publication time up to 45 minutes back or one minute
\* ahead of the server's clock (age -1), or with no usable "time"
StaleAges == ReplyAges \cup {-1}

\* Replies of the primary API for the derivation of the deltas: failed, or
\* one of three announcements published at the time of the call
DeriveReplies ==
    {[ok |-> FALSE, annouce |-> 0, age |-> 0, time |-> "clock"]}
        \cup [ok : {TRUE}, annouce : Announcements \cup {7}, age : {0}, time : {"clock"}]

StaleReplies ==
    {[ok |-> FALSE, annouce |-> 0, age |-> 0, time |-> "clock"]}
        \cup [ok : {TRUE}, annouce : {6}, age : StaleAges, time : {"clock"}]
        \cup [ok : {TRUE}, annouce : {6}, age : {0}, time : {"none", "words"}]

\* A reply of the scrape: the page parsed, the page did not parse or the
\* request failed ("fail"), or the scraper module could not be imported.
ScraperReplies ==
    {[kind |-> "fail", cc |-> 0], [kind |-> "unavailable", cc |-> 0]}
        \cup [kind : {"ok"}, cc : Announcements]

\* The replies the running system is explored with: the API fails, is
\* current with either announcement, or lags with the later one; the scrape
\* fails either way or shows the earlier announcement.
ApiOutcomes ==
    {a \in ApiReplies :
        a.time = "clock" /\ (a.age = 0 \/ (a.age = 45 /\ a.annouce = 6))}

ScraperOutcomes ==
    {s \in ScraperReplies : s.kind = "ok" => s.cc = 5}

\* update_time is absent (<<>>) or holds a text; a text stands as the pair
\* of numbers that the pattern (\d{1,2}):(\d{2}) finds in it, or as NoMatch
NoMatch == <<>>

BlankRecord(t) ==
    [success |-> FALSE, timestamp |-> <<t>>, gold_bar |-> NoPrices,
     gold_ornament |-> NoPrices, update_time |-> <<>>,
     price_change |-> NoChange, today_change |-> NoChange,
     change_count |-> 0, source_type |-> <<>>, error |-> "none"]

scrape_gold_prices_api(a, t) ==
    IF ~a.ok
    THEN [BlankRecord(t) EXCEPT !.error = "api_failed"]
    ELSE [BlankRecord(t) EXCEPT
            !.success = TRUE,
            !.gold_bar = [buy |-> <<BarSell(a.annouce) - 100>>,
                          sell |-> <<BarSell(a.annouce)>>],
            !.gold_ornament = [buy |-> <<BarSell(a.annouce) - 150>>,
                               sell |-> <<BarSell(a.annouce) + 50>>],
            !.price_change = ChangeOf(BarChange(a.annouce)),
            !.today_change = ChangeOf(BarChangeToday(a.annouce)),
            !.update_time = IF a.time = "none" THEN <<>>
                            ELSE IF a.time = "words" THEN <<NoMatch>>
                            ELSE <<HHMM(t - a.age * 60)>>,
            !.change_count = a.annouce]

scrape_gold_prices(s, t) ==
    IF s.kind = "ok"
    THEN [BlankRecord(t) EXCEPT
            !.success = TRUE,
            !.gold_bar = [buy |-> <<BarSell(s.cc) - 100>>, sell |-> <<BarSell(s.cc)>>],
            !.gold_ornament = [buy |-> <<BarSell(s.cc) - 150>>,
                               sell |-> <<BarSell(s.cc) + 50>>],
            !.update_time = <<HHMM(t)>>,
            !.change_count = s.cc]
    ELSE [BlankRecord(t) EXCEPT !.error = "scrape_failed"]

\* {"success": False, "error": ...}: the except branches of fetch_from_scraper
BareFailure ==
    [BlankRecord(0) EXCEPT !.timestamp = <<>>, !.error = "scraper_unavailable"]

fetch_from_scraper(s, t) ==
    IF s.kind = "unavailable" THEN BareFailure
    ELSE LET r == scrape_gold_prices(s, t)
         IN  IF r.success THEN [r EXCEPT !.source_type = <<SOURCE_SCRAPER>>] ELSE r

----------------------------------------------------------------------------
\* Staleness and the orchestrator (scraper_api.py:125-197)

\* a staleness test that also rejects an age of exactly the threshold
is_data_stale_Inclusive(update_time, t) ==
    IF update_time = <<>> THEN TRUE
    ELSE IF update_time[1] = NoMatch THEN TRUE
    ELSE LET hour == update_time[1][1]
             minute == update_time[1][2]
             today == DateOf(t) * DaySeconds + hour * 3600 + minute * 60
             instant == IF today > t THEN today - DaySeconds ELSE today
         IN  (t - instant) >= STALE_THRESHOLD_MINUTES * 60

is_data_stale(update_time, t) ==
    IF update_time = <<>> THEN TRUE
    ELSE IF update_time[1] = NoMatch THEN TRUE
    ELSE LET hour == update_time[1][1]
             minute == update_time[1][2]
             today == DateOf(t) * DaySeconds + hour * 3600 + minute * 60
             instant == IF today > t THEN today - DaySeconds ELSE today
         IN  (t - instant) > STALE_THRESHOLD_MINUTES * 60

\* an orchestrator that returns the fallback's record as the scrape left it
fetch_gold_prices_NoBackfill(source_mode, a, s, t) ==
    IF source_mode = SOURCE_SCRAPER THEN fetch_from_scraper(s, t)
    ELSE LET api == [scrape_gold_prices_api(a, t) EXCEPT !.source_type = <<SOURCE_API>>]
             scraper_result == fetch_from_scraper(s, t)
         IN  IF source_mode # SOURCE_AUTO THEN api
             ELSE IF ~api.success \/ is_data_stale(api.update_time, t)
                  THEN IF scraper_result.success THEN scraper_result ELSE api
             ELSE api

\* an orchestrator that hands back the fallback's failure when both fail
fetch_gold_prices_FallbackError(source_mode, a, s, t) ==
    IF source_mode = SOURCE_AUTO /\ ~a.ok /\ s.kind # "ok"
    THEN fetch_from_scraper(s, t)
    ELSE fetch_gold_prices_NoBackfill(source_mode, a, s, t)

fetch_gold_prices(source_mode, a, s, t) ==
    IF source_mode = SOURCE_SCRAPER THEN fetch_from_scraper(s, t)
    ELSE LET api == [scrape_gold_prices_api(a, t) EXCEPT !.source_type = <<SOURCE_API>>]
             scraper_result == fetch_from_scraper(s, t)
         IN  IF source_mode # SOURCE_AUTO THEN api
             ELSE IF ~api.success
                  THEN IF scraper_result.success THEN scraper_result ELSE api
             ELSE IF is_data_stale(api.update_time, t)
                  THEN IF scraper_result.success
                       THEN [scraper_result EXCEPT
                               !.price_change =
                                   IF scraper_result.price_change.amount = 0
                                   THEN api.price_change ELSE @,
                               !.today_change =
                                   IF scraper_result.today_change.amount = 0
                                   THEN api.today_change ELSE @]
                       ELSE api
             ELSE api

\* The adapters one run of fetch_gold_prices calls, in the order it calls
\* them, each with the record the adapter handed back
AdapterCall(adapter, record) == [adapter |-> adapter, record |-> record]

\* an orchestrator that tries the scrape after every call of the API
AdapterCalls_AlwaysBoth(source_mode, a, s, t) ==
    IF source_mode = SOURCE_SCRAPER
    THEN <<AdapterCall(SOURCE_SCRAPER, fetch_from_scraper(s, t))>>
    ELSE <<AdapterCall(SOURCE_API, scrape_gold_prices_api(a, t)),
           AdapterCall(SOURCE_SCRAPER, fetch_from_scraper(s, t))>>

AdapterCalls(source_mode, a, s, t) ==
    LET api == AdapterCall(SOURCE_API, scrape_gold_prices_api(a, t))
        scraper == AdapterCall(SOURCE_SCRAPER, fetch_from_scraper(s, t))
    IN  IF source_mode = SOURCE_SCRAPER THEN <<scraper>>
        ELSE IF source_mode # SOURCE_AUTO THEN <<api>>
        ELSE IF ~api.record.success THEN <<api, scraper>>
        ELSE IF is_data_stale(api.record.update_time, t) THEN <<api, scraper>>
        ELSE <<api>>

----------------------------------------------------------------------------
\* History buffer and durable storage (app.py:41, 71-91)

\* an append that never evicts
DequeAppend_NoEvict(q, e) == Append(q, e)

\* deque(maxlen=N).append
DequeAppend(q, e) ==
    IF Len(q) >= HistoryCap THEN Append(Tail(q), e) ELSE Append(q, e)

\* a restore that keeps the oldest entries of a file that holds too many
DequeOf_Oldest(data) ==
    IF Len(data) > HistoryCap THEN SubSeq(data, 1, HistoryCap) ELSE data

\* deque(data, maxlen=N)
DequeOf(data) ==
    IF Len(data) > HistoryCap
    THEN SubSeq(data, Len(data) - HistoryCap + 1, Len(data))
    ELSE data

NoFile == [exists |-> FALSE, readable |-> FALSE, data |-> <<>>]
CorruptFile == [exists |-> TRUE, readable |-> FALSE, data |-> <<>>]
FileOf(list) == [exists |-> TRUE, readable |-> TRUE, data |-> list]

load_history(file, history) ==
    IF file.exists /\ file.readable THEN DequeOf(file.data) ELSE history

\* An entry an earlier run of the process left in HISTORY_FILE, i-th oldest
OldEntry(i) ==
    [timestamp |-> <<BootTime - 3600 + 60 * i>>,
     gold_bar |-> [buy |-> <<BarSell(5 + (i % 2)) - 100>>, sell |-> <<BarSell(5 + (i % 2))>>],
     gold_ornament |-> [buy |-> <<BarSell(5 + (i % 2)) - 150>>,
                        sell |-> <<BarSell(5 + (i % 2)) + 50>>],
     price_change |-> NoChange,
     update_time |-> <<HHMM(BootTime - 3600 + 60 * i)>>,
     change_count |-> 5 + (i % 2)]

\* HISTORY_FILE as the process may find it: absent, unreadable, or holding
\* one entry more than the buffer takes
InitialFiles ==
    {NoFile, CorruptFile, FileOf([i \in 1..(HistoryCap + 1) |-> OldEntry(i)])}

----------------------------------------------------------------------------
\* Change detection and the interval controller (app.py:131-255)

calculate_price_changes(new_bar_sell, history, t) ==
    IF history = <<>> \/ new_bar_sell = <<>>
    THEN [price_change |-> NoChange, today_change |-> NoChange]
    ELSE LET last_sell == history[Len(history)].gold_bar.sell
             today_entries == SelectSeq(history,
                                 LAMBDA h : h.timestamp # <<>>
                                            /\ DateOf(h.timestamp[1]) = DateOf(t))
             first_sell == today_entries[1].gold_bar.sell
         IN  [price_change |->
                 IF last_sell # <<>> /\ last_sell[1] # 0 /\ last_sell # new_bar_sell
                 THEN ChangeOf(new_bar_sell[1] - last_sell[1])
                 ELSE NoChange,
              today_change |->
                 IF today_entries # <<>> /\ first_sell # <<>> /\ first_sell[1] # 0
                 THEN ChangeOf(new_bar_sell[1] - first_sell[1])
                 ELSE NoChange]

\* lines 184-192: the record as fetch_gold_prices_job stores it
WithChanges(r, history, t) ==
    IF r.price_change.amount = 0 /\ r.today_change.amount = 0
    THEN LET calculated_changes == calculate_price_changes(r.gold_bar.sell, history, t)
         IN  [r EXCEPT !.price_change = calculated_changes.price_change,
                       !.today_change = calculated_changes.today_change]
    ELSE r

\* a detector that takes the first record after start-up for a repeat
price_changed_FirstIsRepeat(last_change_count, new_change_count) ==
    last_change_count # <<>> /\ <<new_change_count>> # last_change_count

\* a detector that takes every record for a change
price_changed_Always(last_change_count, new_change_count) == TRUE

\* line 197
price_changed(last_change_count, new_change_count) ==
    last_change_count = <<>> \/ <<new_change_count>> # last_change_count

history_entry(r) ==
    [timestamp |-> r.timestamp, gold_bar |-> r.gold_bar,
     gold_ornament |-> r.gold_ornament, price_change |-> r.price_change,
     update_time |-> r.update_time, change_count |-> r.change_count]

\* a table that tests the ">= 5" tier before the ">= 10" tier
DesiredInterval_TierOrder(ad, t) ==
    LET base == ad.base_interval
        unchanged == ad.unchanged_count
        is_off_hours == WeekdayOf(t) >= 5 \/ HourOf(t) < 9 \/ HourOf(t) >= 17
    IN  IF is_off_hours THEN base * 10
        ELSE IF unchanged >= 5 THEN base * 3
        ELSE IF unchanged >= 10 THEN base * 5
        ELSE base

\* lines 234-250: the interval the controller wants
DesiredInterval(ad, t) ==
    LET base == ad.base_interval
        unchanged == ad.unchanged_count
        is_off_hours == WeekdayOf(t) >= 5 \/ HourOf(t) < 9 \/ HourOf(t) >= 17
    IN  IF is_off_hours THEN base * 10
        ELSE IF unchanged >= 10 THEN base * 5
        ELSE IF unchanged >= 5 THEN base * 3
        ELSE base

\* a detector that does not record the change_count it accepted
Detected_ForgetCount(ad, r) ==
    IF price_changed(ad.last_change_count, r.change_count)
    THEN [ad EXCEPT !.unchanged_count = 0]
    ELSE [ad EXCEPT !.unchanged_count = @ + 1]

\* adaptive_settings after the change detector ran on a record
Detected(ad, r) ==
    IF price_changed(ad.last_change_count, r.change_count)
    THEN [ad EXCEPT !.unchanged_count = 0, !.last_change_count = <<r.change_count>>]
    ELSE [ad EXCEPT !.unchanged_count = @ + 1]

\* a snapshot replaced only when the detector saw a change
StoreSnapshot_OnChange(stored) ==
    IF price_changed(adaptive_settings.last_change_count, stored.change_count)
    THEN /\ current_price' = <<stored>>
         /\ gold_source_settings' =
               [gold_source_settings EXCEPT !.last_source_used = stored.source_type]
    ELSE UNCHANGED <<current_price, gold_source_settings>>

\* lines 219-220: the snapshot is replaced, on either verdict
StoreSnapshot(stored) ==
    /\ current_price' = <<stored>>
    /\ gold_source_settings' =
          [gold_source_settings EXCEPT
              !.last_source_used =
                  IF stored.source_type = <<>> THEN <<"unknown">> ELSE stored.source_type]

\* a controller that runs whether adaptive mode is on or off
AdjustInterval_IgnoreSwitch(ad, interval, t) ==
    LET new_interval == DesiredInterval(ad, t)
    IN  IF new_interval # ad.current_interval
        THEN [settings |-> [ad EXCEPT !.current_interval = new_interval],
              interval |-> new_interval]
        ELSE [settings |-> ad, interval |-> interval]

\* a controller that re-arms the scheduler on every run
AdjustInterval_AlwaysReschedule(ad, interval, t) ==
    LET new_interval == DesiredInterval(ad, t)
    IN  IF ad.adaptive_enabled
        THEN [settings |-> [ad EXCEPT !.current_interval = new_interval],
              interval |-> new_interval]
        ELSE [settings |-> ad, interval |-> interval]

\* lines 222-223 with adjust_refresh_interval (231-255) and
\* reschedule_fetch_job (121-128), on the settings the detector left
AdjustInterval(ad, interval, t) ==
    LET new_interval == DesiredInterval(ad, t)
    IN  IF ad.adaptive_enabled /\ new_interval # ad.current_interval
        THEN [settings |-> [ad EXCEPT !.current_interval = new_interval],
              interval |-> new_interval]
        ELSE [settings |-> ad, interval |-> interval]

\* lines 183-223, the branch of a successful record
ApplySuccess(r) ==
    LET stored == WithChanges(r, price_history, now)
        adjusted == AdjustInterval(Detected(adaptive_settings, stored), job_interval, now)
    IN  /\ price_history' =
              IF price_changed(adaptive_settings.last_change_count, stored.change_count)
              THEN DequeAppend(price_history, history_entry(stored))
              ELSE price_history
        /\ StoreSnapshot(stored)
        /\ adaptive_settings' = adjusted.settings
        /\ job_interval' = adjusted.interval

\* a failed record stored as the snapshot
ApplyFailure_Overwrite(r) ==
    /\ current_price' = <<r>>
    /\ UNCHANGED <<price_history, adaptive_settings, gold_source_settings, job_interval>>

\* a failed record that empties the snapshot
ApplyFailure_Clear(r) ==
    /\ current_price' = <<>>
    /\ UNCHANGED <<price_history, adaptive_settings, gold_source_settings, job_interval>>

\* lines 224-225, the branch of a failed record
ApplyFailure(r) ==
    UNCHANGED <<current_price, price_history, adaptive_settings,
                gold_source_settings, job_interval>>

----------------------------------------------------------------------------
\* Initial state: the module-level globals of app.py before init_app() runs

\* a response: its kind, when the request was received, the snapshot it carries
NoResponse == [kind |-> "none", at |-> 0, data |-> <<>>]

InitStore ==
    /\ current_price = <<>>
    /\ price_history = <<>>
    /\ adaptive_settings =
          [adaptive_enabled |-> TRUE, base_interval |-> DefaultBaseInterval,
           unchanged_count |-> 0, last_change_count |-> <<>>,
           current_interval |-> DefaultBaseInterval]
    /\ wp_api_settings = [enabled |-> TRUE]
    /\ gold_source_settings = [mode |-> SOURCE_AUTO, last_source_used |-> <<>>]
    /\ quiet_hours_settings = DefaultQuietHours
    /\ job_interval = DefaultBaseInterval
    /\ scheduler_running = FALSE
    /\ history_file \in InitialFiles

InitThreads ==
    /\ pc = [t \in Threads |-> IF t = "main" THEN "start" ELSE "idle"]
    /\ result = [t \in Threads |-> <<>>]
    /\ response = [t \in Requesters |-> NoResponse]
    /\ request = [t \in Requesters |-> <<>>]
    /\ invoked = [t \in Threads |-> <<>>]
    /\ calls = 0

Init ==
    /\ now = BootTime
    /\ InitStore
    /\ InitThreads
    /\ budget = MaxFetches
    /\ script = [seq |-> <<>>, pos |-> 0]

----------------------------------------------------------------------------
\* data_lock (app.py:39), a non-reentrant threading.Lock.  A `with data_lock`
\* block that runs as one step takes and releases the lock within the step;
\* the lock is held from one step to the next only at the positions inside
\* the block of update_settings that is explored one assignment at a time.

\* positions that also hold the lock during the network call and the
\* interpretation of its result
LockedPositions_WithFetch ==
    {"settings_weekday", "settings_weekend", "fetch", "apply"}

LockedPositions == {"settings_weekday", "settings_weekend"}

HoldsLock(t) == pc[t] \in LockedPositions

\* `with data_lock` can be entered
LockFree == \A t \in Threads : ~HoldsLock(t)

----------------------------------------------------------------------------
\* fetch_gold_prices_job (app.py:172-228), one step per lock region

\* a job without the quiet-hours gate
JobProceeds_Always(force) == TRUE

\* a gate that ignores `force`
JobProceeds_IgnoreForce(force) == ~is_quiet_hours

\* line 175: does the job go on to fetch?
JobProceeds(force) == ~(~force /\ is_quiet_hours)

\* where a thread goes when fetch_gold_prices_job returns
AfterJob(t) ==
    IF t = "sched" THEN "idle" ELSE IF t = "main" THEN "done" ELSE "respond"

\* line 180: the orchestrator runs, outside the lock, against an upstream
\* that answers with one of the given replies
FetchWith(t, api_replies, scraper_replies) ==
    /\ pc[t] = "fetch"
    /\ calls < budget
    /\ Len(script.seq) > 0 => script.pos < Len(script.seq)
    /\ calls' = calls + 1
    /\ \E a \in api_replies, s \in scraper_replies :
          LET r == fetch_gold_prices(gold_source_settings.mode, a, s, now)
          IN  /\ script.pos < Len(script.seq) /\ r.success
                    => r.change_count = script.seq[script.pos + 1]
              /\ result' = [result EXCEPT ![t] = <<r>>]
              /\ invoked' = [invoked EXCEPT
                                ![t] = AdapterCalls(gold_source_settings.mode, a, s, now)]
              /\ script' = IF script.pos < Len(script.seq) /\ r.success
                           THEN [script EXCEPT !.pos = @ + 1] ELSE script
    /\ pc' = [pc EXCEPT ![t] = "apply"]
    /\ UNCHANGED <<now, store, response, budget>>
    /\ UNCHANGED request

JobFetch(t) == FetchWith(t, ApiOutcomes, ScraperOutcomes)

\* the same step against every reply of the adapters
JobFetchAny(t) == FetchWith(t, ApiReplies, ScraperReplies)

JobFetchStale(t) == FetchWith(t, StaleReplies, ScraperOutcomes)

JobFetchDerive(t) == FetchWith(t, DeriveReplies, ScraperOutcomes)

\* lines 182-225: the result is interpreted under the lock
JobApply(t) ==
    /\ LockFree
    /\ pc[t] = "apply"
    /\ IF result[t][1].success
       THEN ApplySuccess(result[t][1])
       ELSE ApplyFailure(result[t][1])
    /\ pc' = [pc EXCEPT ![t] = "flushchk"]
    /\ invoked' = [invoked EXCEPT ![t] = <<>>]
    /\ UNCHANGED <<now, wp_api_settings, quiet_hours_settings,
                   scheduler_running, history_file, result, response, calls,
                   budget, script>>
    /\ UNCHANGED request

\* line 227: the length is read without the lock
JobFlushCheck(t) ==
    /\ pc[t] = "flushchk"
    /\ pc' = [pc EXCEPT ![t] = IF Len(price_history) % FlushEvery = 0
                                THEN "save" ELSE AfterJob(t)]
    /\ result' = [result EXCEPT ![t] = IF Len(price_history) % FlushEvery = 0
                                        THEN @ ELSE <<>>]
    /\ UNCHANGED <<now, store, response, calls, budget, script>>
    /\ UNCHANGED <<request, invoked>>

\* a flush that adds the newest entry to what the file holds
JobSave_AppendLog(t) ==
    /\ LockFree
    /\ pc[t] = "save"
    /\ history_file' =
          FileOf(IF price_history = <<>> THEN history_file.data
                 ELSE Append(history_file.data, price_history[Len(price_history)]))
    /\ pc' = [pc EXCEPT ![t] = AfterJob(t)]
    /\ result' = [result EXCEPT ![t] = <<>>]
    /\ UNCHANGED <<now, current_price, price_history, adaptive_settings,
                   wp_api_settings, gold_source_settings, quiet_hours_settings,
                   job_interval, scheduler_running, response, request, invoked,
                   calls, budget, script>>

\* line 228, save_history (lines 84-91): the whole buffer is written under the lock
JobSave(t) ==
    /\ LockFree
    /\ pc[t] = "save"
    /\ history_file' = FileOf(price_history)
    /\ pc' = [pc EXCEPT ![t] = AfterJob(t)]
    /\ result' = [result EXCEPT ![t] = <<>>]
    /\ UNCHANGED <<now, current_price, price_history, adaptive_settings,
                   wp_api_settings, gold_source_settings, quiet_hours_settings,
                   job_interval, scheduler_running, response, calls, budget, script>>
    /\ UNCHANGED <<request, invoked>>

----------------------------------------------------------------------------
\* init_app (app.py:269-288), run once by the start-up thread

InitLoad ==
    /\ pc["main"] = "start"
    /\ price_history' = load_history(history_file, price_history)
    /\ scheduler_running' = TRUE
    /\ pc' = [pc EXCEPT !["main"] = "check"]
    /\ UNCHANGED <<now, current_price, adaptive_settings, wp_api_settings,
                   gold_source_settings, quiet_hours_settings, job_interval,
                   history_file, result, response, calls, budget, script>>
    /\ UNCHANGED <<request, invoked>>

\* lines 282-287: need_fetch, then fetch_gold_prices_job(force=True)
InitFetch ==
    /\ LockFree
    /\ pc["main"] = "check"
    /\ pc' = [pc EXCEPT !["main"] = IF current_price = <<>> /\ JobProceeds(TRUE)
                                      THEN "fetch" ELSE AfterJob("main")]
    /\ UNCHANGED <<now, store, result, response, calls, budget, script>>
    /\ UNCHANGED <<request, invoked>>

----------------------------------------------------------------------------
\* The scheduler's job (app.py:259-266): fetch_gold_prices_job(), ticks of
\* one job never overlap.  The first tick is due one interval (at least 60 s)
\* after scheduler.start(), when the initial fetch of init_app, bounded by
\* the adapters' timeouts, has returned.

Tick ==
    /\ scheduler_running
    /\ pc["main"] = "done"
    /\ pc["sched"] \in {"idle", "skipped", "crashed"}
    /\ pc' = [pc EXCEPT !["sched"] = IF GateFails(quiet_hours_settings, now)
                                     THEN "crashed"
                                     ELSE IF JobProceeds(FALSE) THEN "fetch"
                                     ELSE "skipped"]
    /\ UNCHANGED <<now, store, result, response, calls, budget, script>>
    /\ UNCHANGED <<request, invoked>>

----------------------------------------------------------------------------
\* Request handlers, served once init_app has returned

\* a rate limit that also rejects at exactly thirty seconds
RateLimited_Inclusive ==
    /\ current_price # <<>>
    /\ current_price[1].timestamp # <<>>
    /\ now - current_price[1].timestamp[1] <= RateLimitSeconds

\* lines 417-429: is the snapshot younger than the rate limit?
RateLimited ==
    /\ current_price # <<>>
    /\ current_price[1].timestamp # <<>>
    /\ now - current_price[1].timestamp[1] < RateLimitSeconds

\* POST /api/gold/refresh, lines 417-431: the check under the lock, then
\* fetch_gold_prices_job(force=True)
RefreshCheck(t) ==
    /\ LockFree
    /\ pc["main"] = "done"
    /\ pc[t] = "idle"
    /\ IF RateLimited
       THEN /\ response' = [response EXCEPT
                               ![t] = [kind |-> "rate_limited", at |-> now,
                                       data |-> current_price]]
            /\ UNCHANGED pc
       ELSE /\ pc' = [pc EXCEPT ![t] = IF JobProceeds(TRUE) THEN "fetch"
                                        ELSE AfterJob(t)]
            /\ response' = [response EXCEPT
                               ![t] = [kind |-> "pending", at |-> now, data |-> <<>>]]
    /\ UNCHANGED <<now, store, result, calls, budget, script>>
    /\ UNCHANGED <<request, invoked>>

\* lines 432-437
RefreshRespond(t) ==
    /\ LockFree
    /\ pc[t] = "respond"
    /\ response' = [response EXCEPT
                       ![t] = [kind |-> "refreshed", at |-> response[t].at,
                               data |-> current_price]]
    /\ pc' = [pc EXCEPT ![t] = "idle"]
    /\ UNCHANGED <<now, store, result, calls, budget, script>>
    /\ UNCHANGED <<request, invoked>>

\* a read that stamps the snapshot it serves with the time of the read
GetCurrentPrice_Stamping(t) ==
    /\ LockFree
    /\ pc["main"] = "done"
    /\ pc[t] = "idle"
    /\ response' = [response EXCEPT
                       ![t] = IF current_price = <<>>
                              THEN [kind |-> "no_data", at |-> now, data |-> <<>>]
                              ELSE [kind |-> "current", at |-> now,
                                    data |-> current_price]]
    /\ current_price' = IF current_price = <<>> THEN <<>>
                        ELSE <<[current_price[1] EXCEPT !.timestamp = <<now>>]>>
    /\ UNCHANGED <<now, price_history, adaptive_settings, wp_api_settings,
                   gold_source_settings, quiet_hours_settings, job_interval,
                   scheduler_running, history_file, pc, result, request, invoked,
                   calls, budget, script>>

\* GET /api/gold/current, lines 314-331
GetCurrentPrice(t) ==
    /\ LockFree
    /\ pc["main"] = "done"
    /\ pc[t] = "idle"
    /\ response' = [response EXCEPT
                       ![t] = IF ~wp_api_settings.enabled
                              THEN [kind |-> "disabled", at |-> now, data |-> <<>>]
                              ELSE IF current_price = <<>>
                              THEN [kind |-> "no_data", at |-> now, data |-> <<>>]
                              ELSE [kind |-> "current", at |-> now,
                                    data |-> current_price]]
    /\ UNCHANGED <<now, store, pc, result, calls, budget, script>>
    /\ UNCHANGED <<request, invoked>>

\* the common ending of a read handler: the response goes out, nothing else
\* changes
Respond(t, kind, data) ==
    /\ response' = [response EXCEPT ![t] = [kind |-> kind, at |-> now, data |-> data]]
    /\ UNCHANGED <<now, store, pc, result, request, invoked, calls, budget, script>>

\* the fields the bar and ornament views echo from the snapshot
Echo(r) ==
    [timestamp |-> r.timestamp, update_time |-> r.update_time,
     price_change |-> r.price_change, today_change |-> r.today_change,
     change_count |-> r.change_count]

\* GET /api/gold/bar, lines 334-348
GetGoldBar(t) ==
    /\ LockFree
    /\ pc["main"] = "done"
    /\ pc[t] = "idle"
    /\ IF current_price = <<>>
       THEN Respond(t, "bar_no_data", <<>>)
       ELSE Respond(t, "bar", <<[echo |-> Echo(current_price[1]),
                                prices |-> current_price[1].gold_bar]>>)

\* GET /api/gold/ornament, lines 351-365
GetGoldOrnament(t) ==
    /\ LockFree
    /\ pc["main"] = "done"
    /\ pc[t] = "idle"
    /\ IF current_price = <<>>
       THEN Respond(t, "ornament_no_data", <<>>)
       ELSE Respond(t, "ornament", <<[echo |-> Echo(current_price[1]),
                                     prices |-> current_price[1].gold_ornament]>>)

\* list.reverse()
Reverse(list) == [i \in 1..Len(list) |-> list[Len(list) + 1 - i]]

\* an index of a slice as Python places it in a list of n elements
SliceIndex(i, n) ==
    IF i < 0 THEN (IF i + n < 0 THEN 0 ELSE i + n) ELSE (IF i > n THEN n ELSE i)

\* list[lo:hi]
Slice(list, lo, hi) ==
    LET first == SliceIndex(lo, Len(list))
        last == SliceIndex(hi, Len(list))
    IN  IF first >= last THEN <<>> ELSE SubSeq(list, first + 1, last)

\* a page that counts the offset from the oldest entry
Page_OldestFirst(history, limit, offset) == Slice(history, offset, offset + limit)

\* lines 380-384: the page of the newest-first list
Page(history, limit, offset) == Slice(Reverse(history), offset, offset + limit)

\* GET /api/gold/history, lines 376-377: the query is parsed before the lock
\* is taken; a parameter is <<>> when the request does not carry it, and the
\* cap on limit is the buffer's capacity
HistoryReceive(t, limit_arg, offset_arg) ==
    /\ pc["main"] = "done"
    /\ pc[t] = "idle"
    /\ LET asked == IF limit_arg = <<>> THEN DefaultLimit ELSE limit_arg[1]
       IN  request' = [request EXCEPT
                          ![t] = <<[limit_arg |-> limit_arg, offset_arg |-> offset_arg,
                                    limit |-> IF asked < HistoryCap THEN asked
                                              ELSE HistoryCap,
                                    offset |-> IF offset_arg = <<>> THEN 0
                                               ELSE offset_arg[1]]>>]
    /\ pc' = [pc EXCEPT ![t] = "history"]
    /\ UNCHANGED <<now, store, result, response, invoked, calls, budget, script>>

\* lines 379-392
HistoryRespond(t) ==
    /\ LockFree
    /\ pc[t] = "history"
    /\ response' = [response EXCEPT
                       ![t] = [kind |-> "history", at |-> now,
                               data |-> <<[total |-> Len(price_history),
                                           limit |-> request[t][1].limit,
                                           offset |-> request[t][1].offset,
                                           data |-> Page(price_history,
                                                         request[t][1].limit,
                                                         request[t][1].offset)]>>]]
    /\ pc' = [pc EXCEPT ![t] = "idle"]
    /\ UNCHANGED <<now, store, result, request, invoked, calls, budget, script>>

\* GET /api/gold/history/today, lines 395-411
GetHistoryToday(t) ==
    /\ LockFree
    /\ pc["main"] = "done"
    /\ pc[t] = "idle"
    /\ LET history_list ==
               SelectSeq(price_history,
                         LAMBDA h : h.timestamp # <<>>
                                    /\ DateOf(h.timestamp[1]) = DateOf(now))
       IN  Respond(t, "today",
                   <<[date |-> DateOf(now), total |-> Len(history_list),
                      data |-> Reverse(history_list),
                      today_change |-> IF current_price = <<>> THEN <<>>
                                       ELSE <<current_price[1].today_change>>]>>)

\* sell prices of a series that are present and not zero
SellPrices(history, kind) ==
    LET quoted == SelectSeq(history, LAMBDA h : h[kind].sell # <<>> /\ h[kind].sell[1] # 0)
    IN  [i \in 1..Len(quoted) |-> quoted[i][kind].sell[1]]

RECURSIVE SumOf(_)
SumOf(prices) == IF prices = <<>> THEN 0 ELSE Head(prices) + SumOf(Tail(prices))

\* round(x, 2) of a quotient of whole numbers, in hundredths, ties to even
Rounded2(sum, count) ==
    LET scaled == sum * 100
        floor == scaled \div count
        twice == 2 * (scaled % count)
    IN  IF twice > count \/ (twice = count /\ floor % 2 = 1) THEN floor + 1 ELSE floor

\* high, low and average of a series; all absent for an empty one
Statistics(prices) ==
    IF prices = <<>> THEN [high |-> <<>>, low |-> <<>>, average |-> <<>>]
    ELSE [high |-> <<CHOOSE x \in {prices[i] : i \in 1..Len(prices)} :
                        \A i \in 1..Len(prices) : prices[i] <= x>>,
          low |-> <<CHOOSE x \in {prices[i] : i \in 1..Len(prices)} :
                       \A i \in 1..Len(prices) : prices[i] >= x>>,
          average |-> <<Rounded2(SumOf(prices), Len(prices))>>]

\* GET /api/gold/summary, lines 455-486
GetSummary(t) ==
    /\ LockFree
    /\ pc["main"] = "done"
    /\ pc[t] = "idle"
    /\ IF current_price = <<>> \/ price_history = <<>>
       THEN Respond(t, "summary_no_data", <<>>)
       ELSE Respond(t, "summary",
                    <<[current |-> current_price[1],
                       records_count |-> Len(price_history),
                       gold_bar |-> Statistics(SellPrices(price_history, "gold_bar")),
                       gold_ornament |->
                           Statistics(SellPrices(price_history, "gold_ornament"))]>>)

\* GET /api/health, lines 440-445: has_data and last_update are read under
\* the lock
HealthRead(t) ==
    /\ LockFree
    /\ pc["main"] = "done"
    /\ pc[t] = "idle"
    /\ response' = [response EXCEPT
                       ![t] = [kind |-> "health_pending", at |-> now,
                               data |-> <<[has_data |-> current_price # <<>>,
                                           last_update |->
                                               IF current_price = <<>> THEN <<>>
                                               ELSE current_price[1].timestamp]>>]]
    /\ pc' = [pc EXCEPT ![t] = "health"]
    /\ UNCHANGED <<now, store, result, request, invoked, calls, budget, script>>

\* lines 447-453: the history length and the scheduler's state are read
\* after the lock is released
HealthRespond(t) ==
    /\ pc[t] = "health"
    /\ response' = [response EXCEPT
                       ![t] = [kind |-> "health", at |-> response[t].at,
                               data |-> <<[has_data |-> response[t].data[1].has_data,
                                           last_update |-> response[t].data[1].last_update,
                                           history_count |-> Len(price_history),
                                           scheduler_running |-> scheduler_running]>>]]
    /\ pc' = [pc EXCEPT ![t] = "idle"]
    /\ UNCHANGED <<now, store, result, request, invoked, calls, budget, script>>

\* GET /api/settings, lines 489-505
GetSettings(t) ==
    /\ LockFree
    /\ pc["main"] = "done"
    /\ pc[t] = "idle"
    /\ Respond(t, "settings",
               <<[adaptive_enabled |-> adaptive_settings.adaptive_enabled,
                  base_interval |-> adaptive_settings.base_interval,
                  current_interval |-> adaptive_settings.current_interval,
                  unchanged_count |-> adaptive_settings.unchanged_count,
                  wp_api_enabled |-> wp_api_settings.enabled,
                  gold_source_mode |-> gold_source_settings.mode,
                  gold_source_last_used |-> gold_source_settings.last_source_used,
                  quiet_hours |-> quiet_hours_settings,
                  is_quiet_hours_now |-> is_quiet_hours]>>)

\* POST /api/settings (app.py:508-563).  A JSON body is a record of optional
\* fields; quiet_hours, when present, is a record of optional fields itself.
NoSettings ==
    [adaptive_enabled |-> <<>>, base_interval |-> <<>>, wp_api_enabled |-> <<>>,
     gold_source_mode |-> <<>>, quiet_hours |-> <<>>]

\* line 519
ValidInterval(interval) == 60 <= interval /\ interval <= 600

\* a mode check that lets every mode through
ValidMode_Any(mode) == TRUE

\* line 533
ValidMode(mode) == mode \in {SOURCE_API, SOURCE_SCRAPER, SOURCE_AUTO}

\* line 510: the body is parsed before the lock is taken
SettingsReceive(t, data) ==
    /\ pc["main"] = "done"
    /\ pc[t] = "idle"
    /\ request' = [request EXCEPT ![t] = <<data>>]
    /\ pc' = [pc EXCEPT ![t] = "settings"]
    /\ UNCHANGED <<now, store, result, response, invoked, calls, budget, script>>

\* a handler that stores the base interval and leaves current_interval alone
SettingsApply_BaseOnly(t) ==
    /\ LockFree
    /\ pc[t] = "settings"
    /\ LET data == request[t][1]
           ok == data.base_interval # <<>> /\ ValidInterval(data.base_interval[1])
       IN  /\ adaptive_settings' =
                 IF ok THEN [adaptive_settings EXCEPT
                                !.base_interval = data.base_interval[1]]
                 ELSE adaptive_settings
           /\ response' = [response EXCEPT
                              ![t] = [kind |-> IF data.base_interval # <<>> /\ ~ok
                                               THEN "bad_interval"
                                               ELSE "settings_updated",
                                      at |-> now, data |-> <<>>]]
    /\ pc' = [pc EXCEPT ![t] = "idle"]
    /\ UNCHANGED <<now, current_price, price_history, wp_api_settings,
                   gold_source_settings, quiet_hours_settings, job_interval,
                   scheduler_running, history_file, result, request, invoked,
                   calls, budget, script>>

\* a handler that checks every field before it applies any
SettingsApply_AllOrNothing(t) ==
    /\ LockFree
    /\ pc[t] = "settings"
    /\ LET data == request[t][1]
           bad_interval == /\ data.base_interval # <<>>
                           /\ ~ValidInterval(data.base_interval[1])
           bad_mode == /\ ~bad_interval
                       /\ data.gold_source_mode # <<>>
                       /\ ~ValidMode(data.gold_source_mode[1])
           ok == ~bad_interval /\ ~bad_mode
           enabled_set == IF data.adaptive_enabled # <<>>
                          THEN [adaptive_settings EXCEPT
                                   !.adaptive_enabled = data.adaptive_enabled[1]]
                          ELSE adaptive_settings
           qh == data.quiet_hours[1]
       IN  /\ adaptive_settings' =
                 IF ~ok THEN adaptive_settings
                 ELSE IF data.base_interval # <<>>
                 THEN [enabled_set EXCEPT !.base_interval = data.base_interval[1],
                                          !.current_interval = data.base_interval[1]]
                 ELSE enabled_set
           /\ wp_api_settings' =
                 IF ok /\ data.wp_api_enabled # <<>>
                 THEN [wp_api_settings EXCEPT !.enabled = data.wp_api_enabled[1]]
                 ELSE wp_api_settings
           /\ gold_source_settings' =
                 IF ok /\ data.gold_source_mode # <<>>
                 THEN [gold_source_settings EXCEPT !.mode = data.gold_source_mode[1]]
                 ELSE gold_source_settings
           /\ quiet_hours_settings' =
                 IF ok /\ data.quiet_hours # <<>>
                 THEN [enabled |-> IF qh.enabled # <<>> THEN qh.enabled[1]
                                   ELSE quiet_hours_settings.enabled,
                       weekday |-> IF qh.weekday # <<>> THEN qh.weekday[1]
                                   ELSE quiet_hours_settings.weekday,
                       weekend |-> IF qh.weekend # <<>> THEN qh.weekend[1]
                                   ELSE quiet_hours_settings.weekend]
                 ELSE quiet_hours_settings
           /\ response' = [response EXCEPT
                              ![t] = [kind |-> IF bad_interval THEN "bad_interval"
                                               ELSE IF bad_mode THEN "bad_mode"
                                               ELSE "settings_updated",
                                      at |-> now, data |-> <<>>]]
    /\ pc' = [pc EXCEPT ![t] = "idle"]
    /\ UNCHANGED <<now, current_price, price_history, job_interval,
                   scheduler_running, history_file, result, request, invoked,
                   calls, budget, script>>

\* lines 512-563: the fields are applied in the order of the source, under
\* the lock, and a field that fails its check returns from the handler; the
\* answer is built with is_quiet_hours() (line 561), which may raise
SettingsApply(t) ==
    /\ LockFree
    /\ pc[t] = "settings"
    /\ LET data == request[t][1]
           bad_interval == /\ data.base_interval # <<>>
                           /\ ~ValidInterval(data.base_interval[1])
           bad_mode == /\ ~bad_interval
                       /\ data.gold_source_mode # <<>>
                       /\ ~ValidMode(data.gold_source_mode[1])
           enabled_set == IF data.adaptive_enabled # <<>>
                          THEN [adaptive_settings EXCEPT
                                   !.adaptive_enabled = data.adaptive_enabled[1]]
                          ELSE adaptive_settings
           qh == data.quiet_hours[1]
       IN  /\ adaptive_settings' =
                 IF data.base_interval # <<>> /\ ~bad_interval
                 THEN [enabled_set EXCEPT !.base_interval = data.base_interval[1],
                                          !.current_interval = data.base_interval[1]]
                 ELSE enabled_set
           /\ wp_api_settings' =
                 IF ~bad_interval /\ data.wp_api_enabled # <<>>
                 THEN [wp_api_settings EXCEPT !.enabled = data.wp_api_enabled[1]]
                 ELSE wp_api_settings
           /\ gold_source_settings' =
                 IF ~bad_interval /\ ~bad_mode /\ data.gold_source_mode # <<>>
                 THEN [gold_source_settings EXCEPT !.mode = data.gold_source_mode[1]]
                 ELSE gold_source_settings
           /\ quiet_hours_settings' =
                 IF ~bad_interval /\ ~bad_mode /\ data.quiet_hours # <<>>
                 THEN [enabled |-> IF qh.enabled # <<>> THEN qh.enabled[1]
                                   ELSE quiet_hours_settings.enabled,
                       weekday |-> IF qh.weekday # <<>> THEN qh.weekday[1]
                                   ELSE quiet_hours_settings.weekday,
                       weekend |-> IF qh.weekend # <<>> THEN qh.weekend[1]
                                   ELSE quiet_hours_settings.weekend]
                 ELSE quiet_hours_settings
           /\ response' = [response EXCEPT
                              ![t] = [kind |-> IF bad_interval THEN "bad_interval"
                                               ELSE IF bad_mode THEN "bad_mode"
                                               ELSE IF GateFails(quiet_hours_settings', now)
                                               THEN "server_error"
                                               ELSE "settings_updated",
                                      at |-> now, data |-> <<>>]]
    /\ pc' = [pc EXCEPT ![t] = "idle"]
    /\ UNCHANGED <<now, current_price, price_history, job_interval,
                   scheduler_running, history_file, result, request, invoked,
                   calls, budget, script>>

----------------------------------------------------------------------------
\* update_settings and the quiet-hours gate, one shared read or write at a
\* step.  The handler keeps data_lock from line 512 to its return;
\* is_quiet_hours (app.py:94-118) takes no lock and fetch_gold_prices_job calls
\* it at line 175 before its own `with data_lock`.

\* lines 512-544: the lock is taken, the fields before the quiet-hours windows
\* are applied, and the handler returns if a check fails or no quiet_hours
\* was posted
SettingsBegin(t) ==
    /\ LockFree
    /\ pc[t] = "settings"
    /\ LET data == request[t][1]
           bad_interval == /\ data.base_interval # <<>>
                           /\ ~ValidInterval(data.base_interval[1])
           bad_mode == /\ ~bad_interval
                       /\ data.gold_source_mode # <<>>
                       /\ ~ValidMode(data.gold_source_mode[1])
           enabled_set == IF data.adaptive_enabled # <<>>
                          THEN [adaptive_settings EXCEPT
                                   !.adaptive_enabled = data.adaptive_enabled[1]]
                          ELSE adaptive_settings
           goes_on == ~bad_interval /\ ~bad_mode /\ data.quiet_hours # <<>>
           qh == data.quiet_hours[1]
       IN  /\ adaptive_settings' =
                 IF data.base_interval # <<>> /\ ~bad_interval
                 THEN [enabled_set EXCEPT !.base_interval = data.base_interval[1],
                                          !.current_interval = data.base_interval[1]]
                 ELSE enabled_set
           /\ wp_api_settings' =
                 IF ~bad_interval /\ data.wp_api_enabled # <<>>
                 THEN [wp_api_settings EXCEPT !.enabled = data.wp_api_enabled[1]]
                 ELSE wp_api_settings
           /\ gold_source_settings' =
                 IF ~bad_interval /\ ~bad_mode /\ data.gold_source_mode # <<>>
                 THEN [gold_source_settings EXCEPT !.mode = data.gold_source_mode[1]]
                 ELSE gold_source_settings
           /\ quiet_hours_settings' =
                 IF goes_on /\ qh.enabled # <<>>
                 THEN [quiet_hours_settings EXCEPT !.enabled = qh.enabled[1]]
                 ELSE quiet_hours_settings
           /\ response' =
                 IF goes_on THEN response
                 ELSE [response EXCEPT
                          ![t] = [kind |-> IF bad_interval THEN "bad_interval"
                                           ELSE IF bad_mode THEN "bad_mode"
                                           ELSE "settings_updated",
                                  at |-> now, data |-> <<>>]]
           /\ pc' = [pc EXCEPT ![t] = IF goes_on THEN "settings_weekday" ELSE "idle"]
    /\ UNCHANGED <<now, current_price, price_history, job_interval,
                   scheduler_running, history_file, result, request, invoked,
                   calls, budget, script>>

\* lines 545-546, inside the lock
SettingsWeekday(t) ==
    /\ pc[t] = "settings_weekday"
    /\ LET qh == request[t][1].quiet_hours[1]
       IN  quiet_hours_settings' =
              IF qh.weekday # <<>>
              THEN [quiet_hours_settings EXCEPT !.weekday = qh.weekday[1]]
              ELSE quiet_hours_settings
    /\ pc' = [pc EXCEPT ![t] = "settings_weekend"]
    /\ UNCHANGED <<now, current_price, price_history, adaptive_settings,
                   wp_api_settings, gold_source_settings, job_interval,
                   scheduler_running, history_file, result, response, request,
                   invoked, calls, budget, script>>

\* a handler whose last part enters `with data_lock` a second time
SettingsWeekend_Reacquire(t) ==
    /\ LockFree
    /\ pc[t] = "settings_weekend"
    /\ response' = [response EXCEPT
                       ![t] = [kind |-> "settings_updated", at |-> now, data |-> <<>>]]
    /\ pc' = [pc EXCEPT ![t] = "idle"]
    /\ UNCHANGED <<now, store, result, request, invoked, calls, budget, script>>

\* lines 547-563: the last write, the response, and the lock is released
SettingsWeekend(t) ==
    /\ pc[t] = "settings_weekend"
    /\ LET qh == request[t][1].quiet_hours[1]
       IN  quiet_hours_settings' =
              IF qh.weekend # <<>>
              THEN [quiet_hours_settings EXCEPT !.weekend = qh.weekend[1]]
              ELSE quiet_hours_settings
    /\ response' = [response EXCEPT
                       ![t] = [kind |-> "settings_updated", at |-> now, data |-> <<>>]]
    /\ pc' = [pc EXCEPT ![t] = "idle"]
    /\ UNCHANGED <<now, current_price, price_history, adaptive_settings,
                   wp_api_settings, gold_source_settings, job_interval,
                   scheduler_running, history_file, result, request, invoked,
                   calls, budget, script>>

\* lines 175 and 95-96: the scheduler's job reads quiet_hours_settings["enabled"]
TickGate ==
    /\ scheduler_running
    /\ pc["main"] = "done"
    /\ pc["sched"] \in {"idle", "skipped"}
    /\ pc' = [pc EXCEPT !["sched"] = IF ~quiet_hours_settings.enabled
                                     THEN "fetch" ELSE "gate_window"]
    /\ UNCHANGED <<now, store, result, response, calls, budget, script>>
    /\ UNCHANGED <<request, invoked>>

\* lines 98-118: it reads the window of the day and compares the clock
TickWindow ==
    /\ pc["sched"] = "gate_window"
    /\ pc' = [pc EXCEPT
                 !["sched"] = IF IsQuietAt([quiet_hours_settings EXCEPT
                                               !.enabled = TRUE], now)
                              THEN "skipped" ELSE "fetch"]
    /\ UNCHANGED <<now, store, result, response, calls, budget, script>>
    /\ UNCHANGED <<request, invoked>>

----------------------------------------------------------------------------
\* Process exit and restart.  cleanup (app.py:567-579), registered with
\* atexit, stops the scheduler and writes the buffer; the threads of the
\* process end with it.  A new process starts from the module-level globals
\* and finds HISTORY_FILE as the old one left it.

Shutdown ==
    /\ LockFree
    /\ pc["main"] = "done"
    /\ scheduler_running' = FALSE
    /\ history_file' = FileOf(price_history)
    /\ pc' = [t \in Threads |-> "exited"]
    /\ result' = [t \in Threads |-> <<>>]
    /\ invoked' = [t \in Threads |-> <<>>]
    /\ UNCHANGED <<now, current_price, price_history, adaptive_settings,
                   wp_api_settings, gold_source_settings, quiet_hours_settings,
                   job_interval, response, request, calls, budget, script>>

Restart ==
    /\ pc["main"] = "exited"
    /\ current_price' = <<>>
    /\ price_history' = <<>>
    /\ adaptive_settings' =
          [adaptive_enabled |-> TRUE, base_interval |-> DefaultBaseInterval,
           unchanged_count |-> 0, last_change_count |-> <<>>,
           current_interval |-> DefaultBaseInterval]
    /\ wp_api_settings' = [enabled |-> TRUE]
    /\ gold_source_settings' = [mode |-> SOURCE_AUTO, last_source_used |-> <<>>]
    /\ quiet_hours_settings' = DefaultQuietHours
    /\ job_interval' = DefaultBaseInterval
    /\ pc' = [t \in Threads |-> IF t = "main" THEN "start" ELSE "idle"]
    /\ response' = [t \in Requesters |-> NoResponse]
    /\ request' = [t \in Requesters |-> <<>>]
    /\ UNCHANGED <<now, scheduler_running, history_file, result, invoked,
                   calls, budget, script>>

----------------------------------------------------------------------------
\* Time passes, ten seconds at a step

Advance ==
    /\ now - BootTime < 10 * MaxAdvance
    /\ now' = now + 10
    /\ UNCHANGED <<store, pc, result, response, calls, budget, script>>
    /\ UNCHANGED <<request, invoked>>

Next ==
    \/ InitLoad
    \/ InitFetch
    \/ Tick
    \/ \E t \in Threads : JobFetch(t)
    \/ \E t \in Threads : JobApply(t)
    \/ \E t \in Threads : JobFlushCheck(t)
    \/ \E t \in Threads : JobSave(t)
    \/ \E t \in Requesters : RefreshCheck(t)
    \/ \E t \in Requesters : RefreshRespond(t)
    \/ Advance

Spec == Init /\ [][Next]_vars

----------------------------------------------------------------------------
\* The service with a client that only reads the current price

NextRead ==
    \/ InitLoad
    \/ InitFetch
    \/ Tick
    \/ \E t \in Threads : JobFetch(t)
    \/ \E t \in Threads : JobApply(t)
    \/ \E t \in Threads : JobFlushCheck(t)
    \/ \E t \in Threads : JobSave(t)
    \/ \E t \in Requesters : GetCurrentPrice(t)
    \/ Advance

SpecRead == Init /\ [][NextRead]_vars

----------------------------------------------------------------------------
\* The start-up fetch and the scheduler's ticks against an upstream whose
\* successful replies carry a given sequence of announcement numbers; one
\* fetch more than the sequence is long is explored, so that a fetch may fail

Scenario == <<5, 5, 5, 6, 6>>

Scripts == [1..Len(Scenario) -> Announcements]

InitDetect ==
    /\ now = BootTime
    /\ InitStore
    /\ InitThreads
    /\ budget = Len(Scenario) + 1
    /\ script \in [seq : Scripts, pos : {0}]

NextDetect ==
    \/ InitLoad
    \/ InitFetch
    \/ Tick
    \/ \E t \in Threads : JobFetch(t)
    \/ \E t \in Threads : JobApply(t)
    \/ \E t \in Threads : JobFlushCheck(t)
    \/ \E t \in Threads : JobSave(t)

SpecDetect == InitDetect /\ [][NextDetect]_vars

----------------------------------------------------------------------------
\* The quiet-hours gate under every configuration and clock of a sample:
\* the process starts with the given settings at the given time and runs
\* its start-up fetch and its ticks

QuietWindows ==
    {Window(TRUE, <<18, 0>>, <<8, 0>>),
     Window(FALSE, <<18, 0>>, <<8, 0>>),
     Window(TRUE, <<9, 30>>, <<17, 0>>),
     Window(TRUE, <<12, 0>>, <<12, 0>>)}

QuietConfigs == [enabled : BOOLEAN, weekday : QuietWindows, weekend : QuietWindows]

QuietClocks ==
    {ClockAt(4, 23, 0, 0), ClockAt(5, 5, 0, 0), ClockAt(2, 12, 0, 0),
     ClockAt(6, 12, 0, 30), ClockAt(0, 8, 0, 0), ClockAt(0, 7, 59, 59),
     ClockAt(3, 18, 0, 0), ClockAt(3, 17, 59, 59), ClockAt(1, 9, 30, 0),
     ClockAt(1, 17, 0, 0), ClockAt(6, 16, 59, 0)}

InitQuiet ==
    /\ now \in QuietClocks
    /\ current_price = <<>>
    /\ price_history = <<>>
    /\ adaptive_settings =
          [adaptive_enabled |-> TRUE, base_interval |-> DefaultBaseInterval,
           unchanged_count |-> 0, last_change_count |-> <<>>,
           current_interval |-> DefaultBaseInterval]
    /\ wp_api_settings = [enabled |-> TRUE]
    /\ gold_source_settings = [mode |-> SOURCE_AUTO, last_source_used |-> <<>>]
    /\ quiet_hours_settings \in QuietConfigs
    /\ job_interval = DefaultBaseInterval
    /\ scheduler_running = FALSE
    /\ history_file = NoFile
    /\ InitThreads
    /\ budget = 1
    /\ script = [seq |-> <<>>, pos |-> 0]

NextQuiet ==
    \/ InitLoad
    \/ InitFetch
    \/ Tick
    \/ \E t \in Threads : JobFetch(t)
    \/ \E t \in Threads : JobApply(t)
    \/ \E t \in Threads : JobFlushCheck(t)
    \/ \E t \in Threads : JobSave(t)

SpecQuiet == InitQuiet /\ [][NextQuiet]_vars

----------------------------------------------------------------------------
\* The service with a client that posts settings: bodies with one field,
\* with a field that fails its check, and with such a field among valid ones

QuietUpdate(enabled, weekday, weekend) ==
    [enabled |-> enabled, weekday |-> weekday, weekend |-> weekend]

SettingsRequests ==
    {NoSettings,
     [NoSettings EXCEPT !.adaptive_enabled = <<FALSE>>],
     [NoSettings EXCEPT !.base_interval = <<60>>],
     [NoSettings EXCEPT !.base_interval = <<600>>],
     [NoSettings EXCEPT !.base_interval = <<59>>],
     [NoSettings EXCEPT !.base_interval = <<700>>],
     [NoSettings EXCEPT !.base_interval = <<700>>, !.adaptive_enabled = <<FALSE>>,
                        !.wp_api_enabled = <<FALSE>>,
                        !.gold_source_mode = <<SOURCE_SCRAPER>>,
                        !.quiet_hours = <<QuietUpdate(<<FALSE>>, <<>>, <<>>)>>],
     [NoSettings EXCEPT !.wp_api_enabled = <<FALSE>>],
     [NoSettings EXCEPT !.gold_source_mode = <<SOURCE_API>>],
     [NoSettings EXCEPT !.gold_source_mode = <<SOURCE_SCRAPER>>],
     [NoSettings EXCEPT !.gold_source_mode = <<"manual">>],
     [NoSettings EXCEPT !.gold_source_mode = <<"manual">>,
                        !.base_interval = <<600>>,
                        !.quiet_hours = <<QuietUpdate(<<FALSE>>, <<>>, <<>>)>>],
     [NoSettings EXCEPT !.quiet_hours =
         <<QuietUpdate(<<>>, <<Window(TRUE, <<9, 30>>, <<17, 0>>)>>, <<>>)>>]}

\* the process starts without a history file; one orchestrator run is
\* explored, so that the posted mode is the mode a fetch runs with
InitSettings ==
    /\ now = BootTime
    /\ InitStore
    /\ history_file = NoFile
    /\ InitThreads
    /\ budget = 1
    /\ script = [seq |-> <<>>, pos |-> 0]

NextSettings ==
    \/ InitLoad
    \/ InitFetch
    \/ Tick
    \/ \E t \in Threads : JobFetch(t)
    \/ \E t \in Threads : JobApply(t)
    \/ \E t \in Threads : JobFlushCheck(t)
    \/ \E t \in Threads : JobSave(t)
    \/ \E t \in Requesters, data \in SettingsRequests : SettingsReceive(t, data)
    \/ \E t \in Requesters : SettingsApply(t)

SpecSettings == InitSettings /\ [][NextSettings]_vars

----------------------------------------------------------------------------
\* The orchestrator in every mode against every reply of the adapters: the
\* process starts at one of a sample of clocks, a client posts the source
\* mode or switches the quiet hours off, and the start-up fetch and the
\* scheduler's ticks run the orchestrator

FetchClocks == {BootTime, ClockAt(2, 0, 10, 0), ClockAt(2, 10, 0, 0)}

ModeRequests ==
    {[NoSettings EXCEPT !.gold_source_mode = <<SOURCE_API>>],
     [NoSettings EXCEPT !.gold_source_mode = <<SOURCE_SCRAPER>>],
     [NoSettings EXCEPT !.gold_source_mode = <<SOURCE_AUTO>>],
     [NoSettings EXCEPT !.quiet_hours = <<QuietUpdate(<<FALSE>>, <<>>, <<>>)>>]}

InitOrchestrator ==
    /\ now \in FetchClocks
    /\ InitStore
    /\ history_file = NoFile
    /\ InitThreads
    /\ budget = MaxFetches
    /\ script = [seq |-> <<>>, pos |-> 0]

NextOrchestrator ==
    \/ InitLoad
    \/ InitFetch
    \/ Tick
    \/ \E t \in Threads : JobFetchAny(t)
    \/ \E t \in Threads : JobApply(t)
    \/ \E t \in Threads : JobFlushCheck(t)
    \/ \E t \in Threads : JobSave(t)
    \/ \E t \in Requesters, data \in ModeRequests : SettingsReceive(t, data)
    \/ \E t \in Requesters : SettingsApply(t)

SpecOrchestrator == InitOrchestrator /\ [][NextOrchestrator]_vars

----------------------------------------------------------------------------
\* The staleness test at the sample of clocks, in auto mode, against an API
\* whose "time" may lag, lead or be unusable

NextStale ==
    \/ InitLoad
    \/ InitFetch
    \/ Tick
    \/ \E t \in Threads : JobFetchStale(t)
    \/ \E t \in Threads : JobApply(t)
    \/ \E t \in Threads : JobFlushCheck(t)
    \/ \E t \in Threads : JobSave(t)

SpecStale == InitOrchestrator /\ [][NextStale]_vars

----------------------------------------------------------------------------
\* The local derivation of price_change and today_change: the process finds
\* HISTORY_FILE absent, unreadable or holding entries of the last hour, and
\* the API reports both deltas, none, or only one of them

NextDerive ==
    \/ InitLoad
    \/ InitFetch
    \/ Tick
    \/ \E t \in Threads : JobFetchDerive(t)
    \/ \E t \in Threads : JobApply(t)
    \/ \E t \in Threads : JobFlushCheck(t)
    \/ \E t \in Threads : JobSave(t)

SpecDerive == Init /\ [][NextDerive]_vars

----------------------------------------------------------------------------
\* The history store over the life of several processes: the first finds
\* HISTORY_FILE absent, unreadable, holding one entry more than the buffer
\* takes, or holding one entry less than a flush period; processes exit
\* through cleanup and start again

StoreFiles ==
    InitialFiles \cup {FileOf([i \in 1..(FlushEvery - 1) |-> OldEntry(i)])}

InitStoreLife ==
    /\ now = BootTime
    /\ current_price = <<>>
    /\ price_history = <<>>
    /\ adaptive_settings =
          [adaptive_enabled |-> TRUE, base_interval |-> DefaultBaseInterval,
           unchanged_count |-> 0, last_change_count |-> <<>>,
           current_interval |-> DefaultBaseInterval]
    /\ wp_api_settings = [enabled |-> TRUE]
    /\ gold_source_settings = [mode |-> SOURCE_AUTO, last_source_used |-> <<>>]
    /\ quiet_hours_settings = DefaultQuietHours
    /\ job_interval = DefaultBaseInterval
    /\ scheduler_running = FALSE
    /\ history_file \in StoreFiles
    /\ InitThreads
    /\ budget = MaxFetches
    /\ script = [seq |-> <<>>, pos |-> 0]

NextStoreLife ==
    \/ InitLoad
    \/ InitFetch
    \/ Tick
    \/ \E t \in Threads : JobFetch(t)
    \/ \E t \in Threads : JobApply(t)
    \/ \E t \in Threads : JobFlushCheck(t)
    \/ \E t \in Threads : JobSave(t)
    \/ Shutdown
    \/ Restart
    \/ Advance

SpecStoreLife == InitStoreLife /\ [][NextStoreLife]_vars

----------------------------------------------------------------------------
\* The service with a client that pages through the history: the process
\* finds HISTORY_FILE in one of the states of StoreFiles, runs its start-up
\* fetch and its ticks, and answers history queries with and without
\* parameters, on pages inside, across and past the end of the history

HistoryLimits == {<<>>, <<0>>, <<3>>, <<HistoryCap + 1>>}

HistoryOffsets == {<<>>, <<2>>, <<HistoryCap - 1>>, <<HistoryCap + 1>>, <<-1>>}

InitHistory ==
    /\ now = BootTime
    /\ current_price = <<>>
    /\ price_history = <<>>
    /\ adaptive_settings =
          [adaptive_enabled |-> TRUE, base_interval |-> DefaultBaseInterval,
           unchanged_count |-> 0, last_change_count |-> <<>>,
           current_interval |-> DefaultBaseInterval]
    /\ wp_api_settings = [enabled |-> TRUE]
    /\ gold_source_settings = [mode |-> SOURCE_AUTO, last_source_used |-> <<>>]
    /\ quiet_hours_settings = DefaultQuietHours
    /\ job_interval = DefaultBaseInterval
    /\ scheduler_running = FALSE
    /\ history_file \in StoreFiles
    /\ InitThreads
    /\ budget = 1
    /\ script = [seq |-> <<>>, pos |-> 0]

NextHistory ==
    \/ InitLoad
    \/ InitFetch
    \/ Tick
    \/ \E t \in Threads : JobFetch(t)
    \/ \E t \in Threads : JobApply(t)
    \/ \E t \in Threads : JobFlushCheck(t)
    \/ \E t \in Threads : JobSave(t)
    \/ \E t \in Requesters, limit \in HistoryLimits, offset \in HistoryOffsets :
          HistoryReceive(t, limit, offset)
    \/ \E t \in Requesters : HistoryRespond(t)

SpecHistory == InitHistory /\ [][NextHistory]_vars

----------------------------------------------------------------------------
\* The service with a client that only reads, through every read endpoint

ReadLimits == {<<>>}

ReadOffsets == {<<1>>}

\* the process starts without a history file; its start-up fetch and one
\* fetch of a tick are explored, so that a tick can fail or succeed between
\* two reads
InitReads ==
    /\ now = BootTime
    /\ InitStore
    /\ history_file = NoFile
    /\ InitThreads
    /\ budget = 2
    /\ script = [seq |-> <<>>, pos |-> 0]

NextReads ==
    \/ InitLoad
    \/ InitFetch
    \/ Tick
    \/ \E t \in Threads : JobFetch(t)
    \/ \E t \in Threads : JobApply(t)
    \/ \E t \in Threads : JobFlushCheck(t)
    \/ \E t \in Threads : JobSave(t)
    \/ \E t \in Requesters : GetCurrentPrice(t)
    \/ \E t \in Requesters : GetGoldBar(t)
    \/ \E t \in Requesters : GetGoldOrnament(t)
    \/ \E t \in Requesters, limit \in ReadLimits, offset \in ReadOffsets :
          HistoryReceive(t, limit, offset)
    \/ \E t \in Requesters : HistoryRespond(t)
    \/ \E t \in Requesters : GetHistoryToday(t)
    \/ \E t \in Requesters : GetSummary(t)
    \/ \E t \in Requesters : HealthRead(t)
    \/ \E t \in Requesters : HealthRespond(t)
    \/ \E t \in Requesters : GetSettings(t)
    \/ Advance

SpecReads == InitReads /\ [][NextReads]_vars

----------------------------------------------------------------------------
\* A scheduled tick and a forced refresh in flight together: the process
\* starts without a history file and three fetches are explored: the one of
\* start-up, then one by the scheduler's thread and one by the request
\* thread, which can both hold a fetched result before either applies it

InitConcurrent ==
    /\ now = BootTime
    /\ InitStore
    /\ history_file = NoFile
    /\ InitThreads
    /\ budget = 3
    /\ script = [seq |-> <<>>, pos |-> 0]

SpecConcurrent == InitConcurrent /\ [][Next]_vars

----------------------------------------------------------------------------
\* Settings posted while the scheduler ticks, the handler and the gate taken
\* one shared access at a step.  The process starts in the evening of a
\* weekday, inside the default quiet hours, or just before them; a client
\* switches the quiet hours off, switches them on again while disabling the
\* weekday window, or posts a source mode with a weekend window.

RaceClocks == {BootTime, ClockAt(4, 20, 0, 0)}

RaceRequests ==
    {[NoSettings EXCEPT !.quiet_hours = <<QuietUpdate(<<FALSE>>, <<>>, <<>>)>>],
     [NoSettings EXCEPT !.quiet_hours =
         <<QuietUpdate(<<TRUE>>, <<Window(FALSE, <<18, 0>>, <<8, 0>>)>>, <<>>)>>],
     [NoSettings EXCEPT !.gold_source_mode = <<SOURCE_SCRAPER>>,
                        !.quiet_hours =
         <<QuietUpdate(<<>>, <<>>, <<Window(TRUE, <<20, 0>>, <<6, 0>>)>>)>>],
     [NoSettings EXCEPT !.gold_source_mode = <<"manual">>]}

InitRace ==
    /\ now \in RaceClocks
    /\ InitStore
    /\ history_file = NoFile
    /\ InitThreads
    /\ budget = 2
    /\ script = [seq |-> <<>>, pos |-> 0]

NextRace ==
    \/ InitLoad
    \/ InitFetch
    \/ TickGate
    \/ TickWindow
    \/ \E t \in Threads : JobFetch(t)
    \/ \E t \in Threads : JobApply(t)
    \/ \E t \in Threads : JobFlushCheck(t)
    \/ \E t \in Threads : JobSave(t)
    \/ \E t \in Requesters, data \in RaceRequests : SettingsReceive(t, data)
    \/ \E t \in Requesters : SettingsBegin(t)
    \/ \E t \in Requesters : SettingsWeekday(t)
    \/ \E t \in Requesters : SettingsWeekend(t)

SpecRace == InitRace /\ [][NextRace]_vars

----------------------------------------------------------------------------
\* Every user of data_lock together: the start-up thread, the scheduler's
\* job with its flush, forced refreshes, settings reads and writes with the
\* handler taken one write at a step, a read of the snapshot, and cleanup

NextLock ==
    \/ InitLoad
    \/ InitFetch
    \/ TickGate
    \/ TickWindow
    \/ \E t \in Threads : JobFetch(t)
    \/ \E t \in Threads : JobApply(t)
    \/ \E t \in Threads : JobFlushCheck(t)
    \/ \E t \in Threads : JobSave(t)
    \/ \E t \in Requesters : RefreshCheck(t)
    \/ \E t \in Requesters : RefreshRespond(t)
    \/ \E t \in Requesters : GetCurrentPrice(t)
    \/ \E t \in Requesters : GetSettings(t)
    \/ \E t \in Requesters, data \in RaceRequests : SettingsReceive(t, data)
    \/ \E t \in Requesters : SettingsBegin(t)
    \/ \E t \in Requesters : SettingsWeekday(t)
    \/ \E t \in Requesters : SettingsWeekend(t)
    \/ Shutdown

SpecLock == InitRace /\ [][NextLock]_vars

----------------------------------------------------------------------------
\* Quiet hours posted by a client that leaves out the start of a window

WindowRequests ==
    {[NoSettings EXCEPT !.quiet_hours = <<QuietUpdate(<<FALSE>>, <<>>, <<>>)>>],
     [NoSettings EXCEPT !.quiet_hours = <<QuietUpdate(<<TRUE>>, <<>>, <<>>)>>],
     [NoSettings EXCEPT !.quiet_hours =
         <<QuietUpdate(<<>>, <<Window(TRUE, <<9, 30>>, <<17, 0>>)>>, <<>>)>>],
     [NoSettings EXCEPT !.quiet_hours =
         <<QuietUpdate(<<>>, <<Window(TRUE, <<>>, <<8, 0>>)>>, <<>>)>>],
     [NoSettings EXCEPT !.quiet_hours =
         <<QuietUpdate(<<>>, <<>>, <<Window(FALSE, <<18, 0>>, <<>>)>>)>>]}

NextWindow ==
    \/ InitLoad
    \/ InitFetch
    \/ Tick
    \/ \E t \in Threads : JobFetch(t)
    \/ \E t \in Threads : JobApply(t)
    \/ \E t \in Threads : JobFlushCheck(t)
    \/ \E t \in Threads : JobSave(t)
    \/ \E t \in Requesters, data \in WindowRequests : SettingsReceive(t, data)
    \/ \E t \in Requesters : SettingsApply(t)

SpecWindow == InitRace /\ [][NextWindow]_vars

----------------------------------------------------------------------------
\* The interval controller on a service that has been running: the start-up
\* fetch is over, the scheduler ticks, and the process is met at a sample of
\* clocks with a sample of adaptive settings - never fetched yet, or holding
\* the snapshot of announcement 5 seen unchanged_count times since

AdjustClocks ==
    {ClockAt(2, 10, 0, 0), ClockAt(2, 8, 59, 50), ClockAt(2, 9, 0, 0),
     ClockAt(2, 16, 59, 50), ClockAt(2, 17, 0, 0), ClockAt(5, 10, 0, 0)}

AdjustBases == {60, 120, 600}

AdjustCounts == {0, 3, 4, 8, 9, 11}

\* the record stored by a successful fetch of announcement 5 at time t
SeenRecord(t) ==
    [scrape_gold_prices_api([ok |-> TRUE, annouce |-> 5, age |-> 0,
                             time |-> "clock"], t)
        EXCEPT !.source_type = <<SOURCE_API>>]

InitAdjust ==
    /\ now \in AdjustClocks
    /\ \E enabled \in BOOLEAN, base \in AdjustBases, tier \in {1, 3, 5, 10},
          unchanged \in AdjustCounts, fetched \in BOOLEAN :
          /\ ~fetched => unchanged = 0
          /\ adaptive_settings =
                [adaptive_enabled |-> enabled, base_interval |-> base,
                 unchanged_count |-> unchanged,
                 last_change_count |-> IF fetched THEN <<5>> ELSE <<>>,
                 current_interval |-> base * tier]
          /\ job_interval = base * tier
          /\ current_price = IF fetched THEN <<SeenRecord(now - 60)>> ELSE <<>>
          /\ price_history =
                IF fetched THEN <<history_entry(SeenRecord(now - 3600))>> ELSE <<>>
          /\ gold_source_settings =
                [mode |-> SOURCE_AUTO,
                 last_source_used |-> IF fetched THEN <<SOURCE_API>> ELSE <<>>]
          /\ history_file = IF fetched THEN NoFile ELSE FileOf(<<>>)
    /\ wp_api_settings = [enabled |-> TRUE]
    /\ quiet_hours_settings = DefaultQuietHours
    /\ scheduler_running = TRUE
    /\ pc = [t \in Threads |-> IF t = "main" THEN "done" ELSE "idle"]
    /\ result = [t \in Threads |-> <<>>]
    /\ response = [t \in Requesters |-> NoResponse]
    /\ request = [t \in Requesters |-> <<>>]
    /\ invoked = [t \in Threads |-> <<>>]
    /\ calls = 0
    /\ budget = MaxFetches
    /\ script = [seq |-> <<>>, pos |-> 0]

NextAdjust ==
    \/ Tick
    \/ \E t \in Threads : JobFetch(t)
    \/ \E t \in Threads : JobApply(t)
    \/ \E t \in Threads : JobFlushCheck(t)
    \/ \E t \in Threads : JobSave(t)

SpecAdjust == InitAdjust /\ [][NextAdjust]_vars

----------------------------------------------------------------------------
\* The interval controller with a client that posts a base interval or
\* switches adaptive mode: update_settings sets current_interval and leaves
\* the scheduler as it is, so the controller meets a scheduler whose period
\* is not current_interval.  The process is met in office hours or in the
\* evening of a weekday, with the default base interval.

ControlClocks == {ClockAt(2, 10, 0, 0), ClockAt(2, 17, 0, 0)}

IntervalRequests ==
    {[NoSettings EXCEPT !.base_interval = <<60>>],
     [NoSettings EXCEPT !.base_interval = <<600>>],
     [NoSettings EXCEPT !.adaptive_enabled = <<FALSE>>],
     [NoSettings EXCEPT !.adaptive_enabled = <<TRUE>>]}

NextControl ==
    \/ Tick
    \/ \E t \in Threads : JobFetch(t)
    \/ \E t \in Threads : JobApply(t)
    \/ \E t \in Threads : JobFlushCheck(t)
    \/ \E t \in Threads : JobSave(t)
    \/ \E t \in Requesters, data \in IntervalRequests : SettingsReceive(t, data)
    \/ \E t \in Requesters : SettingsApply(t)

InitControl ==
    /\ InitAdjust
    /\ now \in ControlClocks
    /\ adaptive_settings.base_interval = DefaultBaseInterval

SpecControl == InitControl /\ [][NextControl]_vars

----------------------------------------------------------------------------
\* The same service with a client whose base intervals lie on and just
\* outside the accepted range

RangeRequests ==
    {[NoSettings EXCEPT !.base_interval = <<60>>],
     [NoSettings EXCEPT !.base_interval = <<600>>],
     [NoSettings EXCEPT !.base_interval = <<59>>],
     [NoSettings EXCEPT !.base_interval = <<601>>]}

NextRange ==
    \/ Tick
    \/ \E t \in Threads : JobFetch(t)
    \/ \E t \in Threads : JobApply(t)
    \/ \E t \in Threads : JobFlushCheck(t)
    \/ \E t \in Threads : JobSave(t)
    \/ \E t \in Requesters, data \in RangeRequests : SettingsReceive(t, data)
    \/ \E t \in Requesters : SettingsApply(t)

SpecRange == InitControl /\ [][NextRange]_vars

----------------------------------------------------------------------------
\* Properties

\* thread t runs the locked block of fetch_gold_prices_job in this step
ApplyStep(t) == pc[t] = "apply" /\ pc'[t] # "apply"

\* request thread t runs the rate-limit check of refresh_prices in this step
RefreshStep(t) ==
    /\ pc[t] = "idle"
    /\ response'[t] # response[t]
    /\ response'[t].kind \in {"rate_limited", "pending"}

\* request thread t takes a step of a handler
RequestStep(t) ==
    \/ pc'[t] # pc[t]
    \/ response'[t] # response[t]
    \/ request'[t] # request[t]

\* request thread t answers a read of the current snapshot in this step
CurrentReadStep(t) ==
    /\ pc[t] = "idle"
    /\ response'[t] # response[t]
    /\ response'[t].kind \in {"current", "no_data", "disabled"}

\* request thread t answers a history query in this step
HistoryStep(t) == pc[t] = "history" /\ pc'[t] = "idle"

\* the start-up thread runs load_history in this step
LoadStep == pc["main"] = "start" /\ pc'["main"] # "start"

\* thread t leaves the length test of fetch_gold_prices_job for save_history
FlushTriggered(t) == pc[t] = "flushchk" /\ pc'[t] = "save"

\* thread t runs the orchestrator in this step
FetchStep(t) == pc[t] = "fetch" /\ pc'[t] = "apply"

\* request thread t runs the locked block of update_settings in this step
SettingsStep(t) == pc[t] = "settings" /\ pc'[t] = "idle"

\* the scheduler's job reads a quiet-hours setting in this step
GateStep ==
    /\ pc["sched"] \in {"idle", "skipped", "gate_window"}
    /\ pc'["sched"] # pc["sched"]

\* the snapshot carries a timestamp less than thirty seconds old
Fresh ==
    /\ current_price # <<>>
    /\ now - current_price[1].timestamp[1] < RateLimitSeconds

\* entries of the buffer that this run of the process appended
NewEntries ==
    Cardinality({i \in 1..Len(price_history) :
                    price_history[i].timestamp[1] >= BootTime})

\* C1: the history never holds more than its capacity, and an accepted
\* change appends one entry as the newest, removing exactly the oldest entry
\* when the buffer is full and keeping the others in order.
C1_HistoryBoundedFifo ==
    /\ [](Len(price_history) <= HistoryCap)
    /\ [][price_history' # price_history /\ pc["main"] # "start" =>
            LET kept == IF Len(price_history) >= HistoryCap
                        THEN Tail(price_history) ELSE price_history
            IN  /\ Len(price_history') = Len(kept) + 1
                /\ SubSeq(price_history', 1, Len(kept)) = kept
                /\ price_history'[Len(price_history')] =
                      history_entry(current_price'[1])]_vars

C1_Witness ==
    /\ Len(price_history) = HistoryCap
    /\ price_history[HistoryCap - 1] = OldEntry(HistoryCap + 1)
    /\ price_history[HistoryCap].timestamp[1] >= BootTime

\* C2: applying a successful record whose change_count differs from
\* last_change_count, or with last_change_count unset, sets unchanged_count
\* to 0 and last_change_count to the record's and appends exactly one entry;
\* otherwise unchanged_count grows by one and the history is untouched.  With
\* the successful fetches carrying 5, 5, 5, 6, 6 from start-up, unchanged_count
\* runs 0, 1, 2, 0, 1 and entries are appended at the first and fourth only.
C2_ChangeDetection ==
    /\ [][\A t \in Threads :
            ApplyStep(t) /\ result[t][1].success =>
                LET r == result[t][1]
                    last == adaptive_settings.last_change_count
                    kept == IF Len(price_history) >= HistoryCap
                            THEN Tail(price_history) ELSE price_history
                IN  IF last = <<>> \/ last[1] # r.change_count
                    THEN /\ adaptive_settings'.unchanged_count = 0
                         /\ adaptive_settings'.last_change_count = <<r.change_count>>
                         /\ Len(price_history') = Len(kept) + 1
                         /\ SubSeq(price_history', 1, Len(kept)) = kept
                         /\ price_history'[Len(price_history')].change_count
                               = r.change_count
                         /\ price_history'[Len(price_history')].timestamp = r.timestamp
                    ELSE /\ adaptive_settings'.unchanged_count
                               = adaptive_settings.unchanged_count + 1
                         /\ adaptive_settings'.last_change_count = last
                         /\ price_history' = price_history]_vars
    /\ [](LET done == script.pos - Cardinality({t \in Threads :
                                       pc[t] = "apply" /\ result[t][1].success})
          IN  script.seq = Scenario /\ done >= 1 =>
                /\ adaptive_settings.unchanged_count = <<0, 1, 2, 0, 1>>[done]
                /\ NewEntries = <<1, 1, 1, 2, 2>>[done]
                /\ price_history[Len(price_history)].change_count
                      = <<5, 5, 5, 6, 6>>[done])

C2_Witness ==
    /\ script = [seq |-> Scenario, pos |-> Len(Scenario)]
    /\ \A t \in Threads : pc[t] # "apply"
    /\ calls = budget
    /\ adaptive_settings.unchanged_count = 1
    /\ NewEntries = 2

\* C3: every successful fetch replaces the snapshot with the fetched record,
\* change or no change; the history is extended only on a change.
C3_SnapshotReplaced ==
    [][\A t \in Threads :
          ApplyStep(t) /\ result[t][1].success =>
              LET r == result[t][1]
                  last == adaptive_settings.last_change_count
              IN  /\ current_price' # <<>>
                  /\ current_price'[1].success
                  /\ current_price'[1].timestamp = r.timestamp
                  /\ current_price'[1].gold_bar = r.gold_bar
                  /\ current_price'[1].gold_ornament = r.gold_ornament
                  /\ current_price'[1].update_time = r.update_time
                  /\ current_price'[1].change_count = r.change_count
                  /\ current_price'[1].source_type = r.source_type
                  /\ price_history' # price_history
                        => last = <<>> \/ last[1] # r.change_count
                  /\ last = <<r.change_count>> => price_history' = price_history]_vars

C3_Witness ==
    \E t \in Threads :
        /\ pc[t] = "flushchk"
        /\ result[t][1].success
        /\ adaptive_settings.unchanged_count > 0
        /\ current_price[1].timestamp = result[t][1].timestamp
        /\ price_history[Len(price_history)].timestamp[1]
              < current_price[1].timestamp[1]

\* C4: a failed record, of a tick or of a forced refresh, leaves the
\* snapshot, the history, unchanged_count, last_change_count,
\* current_interval and last_source_used as they were.
C4_FailureLeavesState ==
    [][\A t \in Threads :
          ApplyStep(t) /\ ~result[t][1].success =>
              UNCHANGED <<current_price, price_history, adaptive_settings,
                          gold_source_settings, job_interval>>]_vars

C4_Witness ==
    /\ pc["req"] = "flushchk"
    /\ ~result["req"][1].success
    /\ current_price # <<>>
    /\ price_history # <<>>

\* C5: the current-price read reports "no data yet" until a fetch has
\* succeeded; the snapshot changes only when a successful record is applied,
\* to that record, and is never empty again, so with the WP-API gate open
\* every read returns the record of the last successful fetch, whatever
\* failed since.
C5_LastGoodSnapshotServed ==
    /\ [][current_price' # current_price =>
            \E t \in Threads :
                /\ ApplyStep(t)
                /\ result[t][1].success
                /\ current_price' # <<>>
                /\ current_price'[1].success
                /\ current_price'[1].timestamp = result[t][1].timestamp
                /\ current_price'[1].change_count = result[t][1].change_count]_vars
    /\ [][current_price # <<>> => current_price' # <<>>]_vars
    /\ [][\A t \in Requesters :
            /\ pc[t] = "idle"
            /\ response'[t] # response[t]
            /\ response'[t].kind \in {"disabled", "no_data", "current"}
            /\ wp_api_settings.enabled
            => response'[t] =
                  IF current_price = <<>>
                  THEN [kind |-> "no_data", at |-> now, data |-> <<>>]
                  ELSE [kind |-> "current", at |-> now, data |-> current_price]]_vars

C5_Witness ==
    /\ response["req"].kind = "current"
    /\ response["req"].data = current_price
    /\ pc["sched"] = "flushchk"
    /\ ~result["sched"][1].success

\* C6: a scheduled tick that fires in quiet hours calls no adapter and
\* changes nothing: snapshot, history, adaptive state, settings, scheduler
\* and durable storage stay as they are.
C6_QuietTickSkipped ==
    [][/\ pc["sched"] \in {"idle", "skipped"}
       /\ pc'["sched"] # pc["sched"]
       /\ is_quiet_hours
       => /\ pc'["sched"] = "skipped"
          /\ UNCHANGED <<store, result, response, calls>>]_vars

C6_Witness ==
    /\ pc["sched"] = "skipped"
    /\ is_quiet_hours
    /\ current_price # <<>>

\* C7: is_quiet_hours is false when the global flag or the flag of the
\* day-type's window is off; otherwise a window with start > end is active
\* when now >= start or now < end and any other window when
\* start <= now < end.  So 18:00-08:00 makes 23:00 and 05:00 quiet and 12:00
\* not, a window with start = end is never quiet, and the scheduler skips a
\* tick exactly when this holds.
C7_QuietHoursWindow ==
    LET qh == quiet_hours_settings
        w == IF WeekdayOf(now) \in 0..4 THEN qh.weekday ELSE qh.weekend
        n == MinuteOfDay(now)
        start == w.start[1] * 60 + w.start[2]
        end == w.end[1] * 60 + w.end[2]
        quiet == /\ qh.enabled
                 /\ w.enabled
                 /\ IF start > end THEN n >= start \/ n < end
                                   ELSE start <= n /\ n < end
    IN  /\ is_quiet_hours = quiet
        /\ qh.enabled /\ w = Window(TRUE, <<18, 0>>, <<8, 0>>) =>
              /\ HHMM(now) \in {<<23, 0>>, <<5, 0>>} => is_quiet_hours
              /\ HHMM(now) = <<12, 0>> => ~is_quiet_hours
        /\ w.start = w.end => ~is_quiet_hours
        /\ pc["sched"] = "skipped" => quiet
        /\ pc["sched"] \in {"fetch", "apply", "flushchk", "save"} => ~quiet

C7_Witness ==
    /\ quiet_hours_settings = DefaultQuietHours
    /\ HHMM(now) = <<23, 0>>
    /\ pc["sched"] = "skipped"

\* C8: a forced fetch - the start-up fetch when no snapshot exists, a manual
\* refresh that is not rate-limited - goes on to the orchestrator whatever
\* the quiet-hours gate says, and a job that reached the orchestrator call
\* leaves it only with a fetched result.
C8_ForcedFetchBypassesGate ==
    [][/\ pc["main"] = "check" /\ pc'["main"] # "check" /\ current_price = <<>>
          => pc'["main"] = "fetch"
       /\ \A t \in Requesters : RefreshStep(t) /\ ~Fresh => pc'[t] = "fetch"
       /\ \A t \in Threads :
             pc[t] = "fetch" /\ pc'[t] # "fetch"
                => pc'[t] = "apply" /\ result'[t] # <<>> /\ calls' = calls + 1]_vars

C8_Witness ==
    /\ pc["req"] = "apply"
    /\ is_quiet_hours
    /\ IsQuietAt(quiet_hours_settings, response["req"].at)
    /\ IsQuietAt(quiet_hours_settings, result["req"][1].timestamp[1])

\* C9: refresh_prices with a snapshot less than 30 seconds old answers
\* rate-limited with that snapshot, calls no adapter and changes nothing;
\* with no snapshot or an older one it runs fetch_gold_prices_job and answers
\* only after it, with the snapshot of that moment.
C9_RefreshRateLimit ==
    [][\A t \in Requesters :
          /\ RefreshStep(t) =>
                IF Fresh
                THEN /\ response'[t] = [kind |-> "rate_limited", at |-> now,
                                        data |-> current_price]
                     /\ UNCHANGED <<store, pc, result, calls>>
                ELSE /\ pc'[t] = "fetch"
                     /\ response'[t].kind = "pending"
                     /\ UNCHANGED store
          /\ response'[t].kind = "refreshed" /\ response'[t] # response[t] =>
                /\ pc[t] = "respond"
                /\ response'[t].data = current_price
          /\ pc'[t] = "respond" /\ pc[t] # "respond" =>
                /\ pc[t] \in {"flushchk", "save"}
                /\ result[t] # <<>>]_vars

C9_Witness ==
    /\ response["req"].kind = "rate_limited"
    /\ response["req"].data = current_price
    /\ response["req"].at - current_price[1].timestamp[1] = 20

\* C10: a forced refresh ten seconds after one that ran its fetch is
\* answered rate-limited, runs no orchestrator and leaves the snapshot as it
\* is, whatever the outcome of the first refresh's fetch.
C10_SecondRefreshRejected ==
    [][\A t \in Requesters :
          /\ RefreshStep(t)
          /\ response[t].kind = "refreshed"
          /\ now = response[t].at + 10
          => /\ response'[t].kind = "rate_limited"
             /\ response'[t].data = current_price
             /\ pc'[t] = "idle"
             /\ UNCHANGED <<current_price, calls>>]_vars

\* C11: when the controller runs, after a successful record with adaptive
\* mode on, current_interval becomes the first match of the table: weekend
\* or hour < 9 or hour >= 17 gives base x 10; else unchanged_count >= 10
\* gives base x 5; else unchanged_count >= 5 gives base x 3; else base - and
\* the scheduler is re-armed with it when it differs.  With base 120 and
\* unchanged_count 12 in office hours the interval is 600, not 120 or 360.
C11_IntervalPriorityTable ==
    [][\A t \in Threads :
          ApplyStep(t) /\ result[t][1].success /\ adaptive_settings.adaptive_enabled =>
              LET base == adaptive_settings'.base_interval
                  unchanged == adaptive_settings'.unchanged_count
                  off == \/ WeekdayOf(now) \in {5, 6}
                         \/ HourOf(now) < 9
                         \/ HourOf(now) >= 17
                  want == CASE off -> base * 10
                            [] ~off /\ unchanged >= 10 -> base * 5
                            [] ~off /\ unchanged \in 5..9 -> base * 3
                            [] OTHER -> base
              IN  /\ adaptive_settings'.current_interval = want
                  /\ want # adaptive_settings.current_interval => job_interval' = want
                  /\ want = adaptive_settings.current_interval
                        => job_interval' = job_interval
                  /\ base = 120 /\ unchanged = 12 /\ ~off
                        => adaptive_settings'.current_interval = 600]_vars

C11_Witness ==
    /\ pc["sched"] = "flushchk"
    /\ result["sched"][1].success
    /\ adaptive_settings.adaptive_enabled
    /\ adaptive_settings.base_interval = 120
    /\ adaptive_settings.unchanged_count = 12
    /\ adaptive_settings.current_interval = 600
    /\ WeekdayOf(now) < 5 /\ HourOf(now) >= 9 /\ HourOf(now) < 17

\* C12: a settings update whose base_interval lies outside 60..600 is
\* answered with the validation error and changes no setting -
\* adaptive_enabled, base_interval, current_interval, wp_api_enabled, source
\* mode, quiet hours - whatever other fields the same request carries.
C12_InvalidIntervalNoMutation ==
    [][\A t \in Requesters :
          /\ SettingsStep(t)
          /\ request[t][1].base_interval # <<>>
          /\ \/ request[t][1].base_interval[1] < 60
             \/ request[t][1].base_interval[1] > 600
          => /\ response'[t].kind = "bad_interval"
             /\ UNCHANGED <<adaptive_settings, wp_api_settings,
                            gold_source_settings, quiet_hours_settings>>]_vars

\* C13: a settings update whose gold_source_mode is none of api, scraper,
\* auto is answered with an error and leaves the configured mode as it was;
\* the configured mode is one of the three in every reachable state.
C13_SourceModeValid ==
    /\ [](gold_source_settings.mode \in {"api", "scraper", "auto"})
    /\ [][\A t \in Requesters :
            /\ SettingsStep(t)
            /\ request[t][1].gold_source_mode # <<>>
            /\ request[t][1].gold_source_mode[1] \notin {"api", "scraper", "auto"}
            => /\ response'[t].kind \in {"bad_mode", "bad_interval"}
               /\ gold_source_settings'.mode = gold_source_settings.mode]_vars

C13_Witness ==
    /\ pc["req"] = "idle"
    /\ response["req"].kind = "bad_mode"
    /\ request["req"][1].gold_source_mode = <<"manual">>
    /\ gold_source_settings.mode = "scraper"
    /\ current_price # <<>>
    /\ current_price[1].source_type = <<"scraper">>

\* C14: one run of the orchestrator calls each adapter at most once and
\* returns one record, a record one of the called adapters handed back: in
\* scraper mode only the scrape is called, in api mode only the API, in auto
\* mode the API first and the scrape if and only if the API's record failed
\* or its update_time is judged stale.
C14_AdaptersInvoked ==
    [][\A t \in Threads :
          FetchStep(t) =>
              LET mode == gold_source_settings.mode
                  log == invoked'[t]
              IN  /\ Len(result'[t]) = 1
                  /\ Len(log) \in {1, 2}
                  /\ \A i, j \in 1..Len(log) : i # j => log[i].adapter # log[j].adapter
                  /\ \E i \in 1..Len(log) :
                        /\ result'[t][1].timestamp = log[i].record.timestamp
                        /\ result'[t][1].gold_bar = log[i].record.gold_bar
                        /\ result'[t][1].success = log[i].record.success
                        /\ result'[t][1].error = log[i].record.error
                  /\ mode = "scraper" => Len(log) = 1 /\ log[1].adapter = "scraper"
                  /\ mode = "api" => Len(log) = 1 /\ log[1].adapter = "api"
                  /\ mode = "auto" =>
                        /\ log[1].adapter = "api"
                        /\ Len(log) = 2 => log[2].adapter = "scraper"
                        /\ Len(log) = 2 <=>
                              \/ ~log[1].record.success
                              \/ is_data_stale(log[1].record.update_time, now)]_vars

C14_Witness ==
    \E t \in Threads :
        /\ pc[t] = "apply"
        /\ gold_source_settings.mode = "auto"
        /\ Len(invoked[t]) = 2
        /\ invoked[t][1].record.success
        /\ invoked[t][2].record.success
        /\ result[t][1].source_type = <<"scraper">>

\* C15: in auto mode with a failed record from the API, the orchestrator
\* returns the scrape's record when the scrape succeeds and the API's
\* failure record, with the API's error, when the scrape fails too.
C15_PrimaryFailureKept ==
    [][\A t \in Threads :
          /\ FetchStep(t)
          /\ gold_source_settings.mode = "auto"
          /\ ~invoked'[t][1].record.success
          => /\ Len(invoked'[t]) = 2
             /\ invoked'[t][2].record.success => result'[t][1] = invoked'[t][2].record
             /\ ~invoked'[t][2].record.success =>
                   /\ ~result'[t][1].success
                   /\ result'[t][1].error = "api_failed"
                   /\ result'[t][1] =
                         [invoked'[t][1].record EXCEPT !.source_type = <<"api">>]]_vars

C15_Witness ==
    \E t \in Threads :
        /\ pc[t] = "apply"
        /\ gold_source_settings.mode = "auto"
        /\ Len(invoked[t]) = 2
        /\ invoked[t][1].record.error = "api_failed"
        /\ invoked[t][2].record.error = "scraper_unavailable"
        /\ result[t][1].error = "api_failed"

\* C16: in auto mode with a successful but stale record from the API - one
\* whose update_time lies 45 minutes back is stale - the scrape is tried; its
\* successful record is returned with price_change, and independently
\* today_change, replaced by the API's where its own amount is zero; when
\* the scrape fails the stale record of the API is returned, a success.
C16_StaleFallback ==
    [][\A t \in Threads :
          /\ FetchStep(t)
          /\ gold_source_settings.mode = "auto"
          /\ invoked'[t][1].record.success
          => LET primary == invoked'[t][1].record
                 returned == result'[t][1]
             IN  /\ primary.update_time = <<HHMM(now - 45 * 60)>> => Len(invoked'[t]) = 2
                 /\ Len(invoked'[t]) = 2 =>
                       LET fallback == invoked'[t][2].record
                       IN  IF fallback.success
                           THEN /\ returned.price_change =
                                      IF fallback.price_change.amount = 0
                                      THEN primary.price_change
                                      ELSE fallback.price_change
                                /\ returned.today_change =
                                      IF fallback.today_change.amount = 0
                                      THEN primary.today_change
                                      ELSE fallback.today_change
                                /\ [returned EXCEPT
                                       !.price_change = fallback.price_change,
                                       !.today_change = fallback.today_change]
                                      = fallback
                           ELSE /\ returned.success
                                /\ returned = [primary EXCEPT !.source_type = <<"api">>]]_vars

C16_Witness ==
    \E t \in Threads :
        /\ pc[t] = "apply"
        /\ gold_source_settings.mode = "auto"
        /\ Len(invoked[t]) = 2
        /\ invoked[t][1].record.success
        /\ invoked[t][1].record.update_time = <<HHMM(now - 45 * 60)>>
        /\ invoked[t][1].record.price_change = [amount |-> 100, direction |-> "up"]
        /\ invoked[t][2].record.success
        /\ invoked[t][2].record.price_change.amount = 0
        /\ result[t][1].gold_bar = invoked[t][2].record.gold_bar
        /\ result[t][1].price_change = [amount |-> 100, direction |-> "up"]

\* C17: every record the orchestrator returns, successful or failed, in
\* every mode, carries the source_type of the adapter that produced it.
C17_SourceTypeAnnotated ==
    [][\A t \in Threads :
          FetchStep(t) =>
              \E i \in 1..Len(invoked'[t]) :
                  /\ result'[t][1].timestamp = invoked'[t][i].record.timestamp
                  /\ result'[t][1].gold_bar = invoked'[t][i].record.gold_bar
                  /\ result'[t][1].update_time = invoked'[t][i].record.update_time
                  /\ result'[t][1].error = invoked'[t][i].record.error
                  /\ result'[t][1].source_type = <<invoked'[t][i].adapter>>]_vars

\* C18: a flush is triggered by the job only when that job accepted a
\* change event - its record succeeded and is the newest history entry - and
\* the accepted changes then number a multiple of ten; a job whose fetch
\* failed or whose record repeated the last announcement triggers none.
C18_FlushOnTenthChangeOnly ==
    [][\A t \in Threads :
          FlushTriggered(t) =>
              /\ result[t][1].success
              /\ price_history # <<>>
              /\ price_history[Len(price_history)].timestamp = result[t][1].timestamp
              /\ price_history[Len(price_history)].change_count
                    = result[t][1].change_count
              /\ Len(price_history) % 10 = 0]_vars

\* C19: whenever durable storage changes it becomes a readable file holding
\* exactly the in-memory history of that instant, entry for entry, and the
\* history is not changed by the step that writes it; every flush, by the
\* job or at exit, writes it so.
C19_FlushIsSnapshot ==
    [][/\ history_file' # history_file =>
             /\ history_file'.exists /\ history_file'.readable
             /\ history_file'.data = price_history
             /\ price_history' = price_history
       /\ \A t \in Threads :
             pc[t] = "save" /\ pc'[t] \notin {"save", "exited"} =>
                 /\ history_file'.readable
                 /\ history_file'.data = price_history
                 /\ price_history' = price_history
       /\ pc["main"] = "done" /\ pc'["main"] = "exited" =>
             /\ history_file'.readable
             /\ history_file'.data = price_history
             /\ price_history' = price_history]_vars

C19_Witness ==
    /\ scheduler_running
    /\ \A t \in Threads : pc[t] \in {"done", "idle"}
    /\ history_file.readable
    /\ Len(price_history) = 10
    /\ history_file.data = price_history
    /\ price_history[10].timestamp[1] >= BootTime

\* C20: load_history restores the last min(k, capacity) of the k entries
\* of a readable file in their order, leaves the history empty when the
\* file is absent or unreadable, and start-up goes on either way; the file
\* an exiting process flushed holds its buffer and stays as it is until the
\* next process has loaded it, so that process starts with the buffer that
\* was flushed.
C20_LoadRestoresFlushed ==
    /\ [][LoadStep =>
            LET data == history_file.data
                k == Len(data)
                n == IF k < HistoryCap THEN k ELSE HistoryCap
            IN  /\ pc'["main"] = "check"
                /\ IF history_file.exists /\ history_file.readable
                   THEN /\ Len(price_history') = n
                        /\ \A i \in 1..n : price_history'[i] = data[k - n + i]
                        /\ k <= HistoryCap => price_history' = data
                   ELSE price_history' = <<>>]_vars
    /\ [](pc["main"] = "exited" =>
            /\ history_file.exists /\ history_file.readable
            /\ history_file.data = price_history)
    /\ [][pc["main"] \in {"exited", "start"} => history_file' = history_file]_vars

C20_Witness ==
    /\ pc["main"] = "check"
    /\ current_price = <<>>
    /\ price_history # <<>>
    /\ price_history = history_file.data
    /\ price_history[Len(price_history)].timestamp[1] >= BootTime

\* C21: a history query with limit >= 0 and offset >= 0 returns, of the
\* history ordered newest first, the entries at positions offset ..
\* offset + min(limit, capacity) - 1, fewer when the history ends, reports
\* the full history length as total, and never returns more than capacity
\* entries; a query without limit is answered as with limit 60, one
\* without offset as with offset 0.
C21_HistoryPage ==
    [][\A t \in Requesters :
          HistoryStep(t) =>
              LET query == request[t][1]
                  limit == IF query.limit_arg = <<>> THEN 60 ELSE query.limit_arg[1]
                  offset == IF query.offset_arg = <<>> THEN 0 ELSE query.offset_arg[1]
                  capped == IF limit < HistoryCap THEN limit ELSE HistoryCap
                  total == Len(price_history)
                  page == response'[t].data[1].data
                  \* 0-based positions of a newest-first list that exist
                  positions == {i \in offset..(offset + capped - 1) : i < total}
              IN  limit >= 0 /\ offset >= 0 =>
                    /\ response'[t].data[1].total = total
                    /\ Len(page) = Cardinality(positions)
                    /\ Len(page) <= HistoryCap
                    /\ \A j \in 1..Len(page) :
                          page[j] = price_history[total - (offset + j - 1)]]_vars

C21_Witness ==
    /\ pc["req"] = "idle"
    /\ response["req"].kind = "history"
    /\ request["req"][1].limit_arg = <<3>>
    /\ request["req"][1].offset_arg = <<HistoryCap - 1>>
    /\ response["req"].data[1].total = HistoryCap
    /\ Len(response["req"].data[1].data) = 1
    /\ response["req"].data[1].data[1] = price_history[1]
    /\ price_history[HistoryCap].timestamp[1] >= BootTime

C23_ConcurrentSameCount ==
    /\ [][\A t, u \in Threads :
            /\ t # u
            /\ ApplyStep(t) /\ result[t][1].success
            /\ pc[u] = "apply" /\ result[u][1].success
            /\ result[u][1].change_count = result[t][1].change_count
            => /\ pc'[u] = "apply"
               /\ adaptive_settings'.last_change_count = <<result[t][1].change_count>>
               /\ Len(price_history') <= Len(price_history) + 1]_vars
    /\ [][\A u \in Threads :
            /\ ApplyStep(u) /\ result[u][1].success
            /\ adaptive_settings.last_change_count = <<result[u][1].change_count>>
            => /\ price_history' = price_history
               /\ adaptive_settings'.unchanged_count
                     = adaptive_settings.unchanged_count + 1
               /\ adaptive_settings'.last_change_count
                     = adaptive_settings.last_change_count]_vars
    /\ [](\A i \in 1..(Len(price_history) - 1) :
            price_history[i].change_count # price_history[i + 1].change_count)

C23_Witness ==
    /\ pc["sched"] = "flushchk"
    /\ pc["req"] = "flushchk"
    /\ result["sched"][1].success
    /\ result["req"][1].success
    /\ result["sched"][1].change_count = 6
    /\ result["req"][1].change_count = 6
    /\ Len(price_history) = 2
    /\ price_history[1].change_count = 5
    /\ price_history[2].change_count = 6
    /\ adaptive_settings.unchanged_count = 1

\* C24: a thread whose network call is in flight does not hold the lock, the
\* step that makes the call leaves the store as it is, and while the
\* scheduler's thread is in its call an idle request thread can take the lock
\* and answer a read of the current snapshot.
C24_FetchOutsideLock ==
    /\ [](\A t \in Threads : pc[t] = "fetch" => ~HoldsLock(t))
    /\ [](\A r \in Requesters :
            pc["sched"] = "fetch" /\ pc[r] = "idle"
            => ENABLED GetCurrentPrice(r))
    /\ [][\A t \in Threads : FetchStep(t) => UNCHANGED store]_vars

C24_Witness ==
    /\ pc["sched"] = "fetch"
    /\ current_price # <<>>
    /\ response["req"].kind = "current"
    /\ response["req"].at = now
    /\ response["req"].at > current_price[1].timestamp[1]

\* C25: the reads that a tick makes of the settings - the quiet-hours gate
\* and the source mode handed to the orchestrator - are made only while no
\* other thread is inside a locked block, so that a tick never sees a
\* settings update half applied.
C25_TickReadsSerialized ==
    [][/\ GateStep => LockFree
       /\ FetchStep("sched") => LockFree]_vars

\* C26: when the controller has run on a successful record, with the
\* desired interval computed from the settings the detector left: a desired
\* interval other than current_interval becomes current_interval and the
\* scheduler's period; a desired interval equal to current_interval leaves
\* both current_interval and the scheduler's period as they were.
C26_RescheduleIffDiffers ==
    [][\A t \in Threads :
          ApplyStep(t) /\ result[t][1].success /\ adaptive_settings.adaptive_enabled =>
              LET desired == DesiredInterval(adaptive_settings', now)
              IN  IF desired # adaptive_settings.current_interval
                  THEN /\ adaptive_settings'.current_interval = desired
                       /\ job_interval' = desired
                  ELSE /\ adaptive_settings'.current_interval
                             = adaptive_settings.current_interval
                       /\ job_interval' = job_interval]_vars

C26_Witness ==
    /\ pc["sched"] = "flushchk"
    /\ result["sched"][1].success
    /\ adaptive_settings.adaptive_enabled
    /\ request["req"] = <<[NoSettings EXCEPT !.base_interval = <<60>>]>>
    /\ response["req"].kind = "settings_updated"
    /\ adaptive_settings.base_interval = 60
    /\ adaptive_settings.unchanged_count = 5
    /\ adaptive_settings.current_interval = 180
    /\ job_interval = 180

\* C27: with adaptive mode on, a successful record leaves current_interval
\* at the interval the controller wants; with adaptive mode off no record,
\* successful or failed, changes current_interval or the scheduler's period,
\* and a successful one still resets unchanged_count and records the new
\* change_count, or adds one to unchanged_count on a repeat.  A failed
\* record changes none of them in either mode.
C27_ControllerOnlyWhenAdaptive ==
    [][\A t \in Threads : ApplyStep(t) =>
          LET r == result[t][1]
              ad == adaptive_settings
          IN  /\ r.success /\ ad.adaptive_enabled
                    => adaptive_settings'.current_interval
                          = DesiredInterval(adaptive_settings', now)
              /\ ~ad.adaptive_enabled
                    => /\ adaptive_settings'.current_interval = ad.current_interval
                       /\ job_interval' = job_interval
              /\ r.success
                    => IF ad.last_change_count = <<r.change_count>>
                       THEN /\ adaptive_settings'.unchanged_count = ad.unchanged_count + 1
                            /\ adaptive_settings'.last_change_count = ad.last_change_count
                       ELSE /\ adaptive_settings'.unchanged_count = 0
                            /\ adaptive_settings'.last_change_count = <<r.change_count>>
              /\ ~r.success
                    => /\ adaptive_settings' = ad
                       /\ job_interval' = job_interval]_vars

C27_Witness ==
    /\ pc["sched"] = "flushchk"
    /\ result["sched"][1].success
    /\ ~adaptive_settings.adaptive_enabled
    /\ now = ClockAt(2, 10, 0, 0)
    /\ adaptive_settings.unchanged_count = 5
    /\ adaptive_settings.last_change_count = <<5>>
    /\ adaptive_settings.current_interval = adaptive_settings.base_interval
    /\ job_interval = adaptive_settings.base_interval

\* C28: a settings update applies its fields in the order adaptive_enabled,
\* base_interval, wp_api_enabled, gold_source_mode, quiet_hours and stops at
\* the first field that fails its check: the fields before it hold their
\* posted values, the failing field and the fields after it are as they
\* were.
C28_OrderedPartialApply ==
    [][\A t \in Requesters : SettingsStep(t) =>
          LET data == request[t][1]
              stop == IF /\ data.base_interval # <<>>
                         /\ (data.base_interval[1] < 60 \/ data.base_interval[1] > 600)
                      THEN 2
                      ELSE IF /\ data.gold_source_mode # <<>>
                              /\ data.gold_source_mode[1] \notin {"api", "scraper", "auto"}
                      THEN 4
                      ELSE 6
          IN  /\ adaptive_settings'.adaptive_enabled =
                    IF data.adaptive_enabled # <<>>
                    THEN data.adaptive_enabled[1]
                    ELSE adaptive_settings.adaptive_enabled
              /\ adaptive_settings'.base_interval =
                    IF 2 < stop /\ data.base_interval # <<>>
                    THEN data.base_interval[1]
                    ELSE adaptive_settings.base_interval
              /\ adaptive_settings'.current_interval =
                    IF 2 < stop /\ data.base_interval # <<>>
                    THEN data.base_interval[1]
                    ELSE adaptive_settings.current_interval
              /\ wp_api_settings'.enabled =
                    IF 3 < stop /\ data.wp_api_enabled # <<>>
                    THEN data.wp_api_enabled[1]
                    ELSE wp_api_settings.enabled
              /\ gold_source_settings'.mode =
                    IF 4 < stop /\ data.gold_source_mode # <<>>
                    THEN data.gold_source_mode[1]
                    ELSE gold_source_settings.mode
              /\ 5 >= stop \/ data.quiet_hours = <<>>
                    => quiet_hours_settings' = quiet_hours_settings
              /\ 5 < stop /\ data.quiet_hours # <<>>
                    => \A f \in {"enabled", "weekday", "weekend"} :
                          quiet_hours_settings'[f] =
                             IF data.quiet_hours[1][f] # <<>>
                             THEN data.quiet_hours[1][f][1]
                             ELSE quiet_hours_settings[f]
              /\ response'[t].kind =
                    IF stop = 2 THEN "bad_interval"
                    ELSE IF stop = 4 THEN "bad_mode" ELSE "settings_updated"]_vars

C28_Witness ==
    /\ response["req"].kind = "bad_interval"
    /\ request["req"][1].adaptive_enabled = <<FALSE>>
    /\ request["req"][1].wp_api_enabled = <<FALSE>>
    /\ request["req"][1].gold_source_mode = <<SOURCE_SCRAPER>>
    /\ pc["req"] = "idle"
    /\ ~adaptive_settings.adaptive_enabled
    /\ adaptive_settings.base_interval = DefaultBaseInterval
    /\ wp_api_settings.enabled
    /\ gold_source_settings.mode = SOURCE_AUTO
    /\ quiet_hours_settings = DefaultQuietHours

\* C29: in auto mode the record of the API is taken for stale, and the
\* scrape tried, exactly when its update_time is absent, holds no HH:MM, or
\* names a time of day that last occurred more than 30 minutes before the
\* call - measured from the top of that minute, on the day before if the
\* time of day is still to come today.  Exactly 30 minutes is not stale; a
\* time one minute ahead is stale.
C29_StaleRule ==
    [][\A t \in Threads :
          /\ FetchStep(t)
          /\ gold_source_settings.mode = "auto"
          /\ invoked'[t][1].record.success
          => LET update_time == invoked'[t][1].record.update_time
                 readable == update_time # <<>> /\ Len(update_time[1]) = 2
                 elapsed == (now - (update_time[1][1] * 3600 + update_time[1][2] * 60))
                               % (24 * 3600)
                 stale == ~readable \/ elapsed > 30 * 60
                 tried == Len(invoked'[t]) = 2
             IN  /\ tried <=> stale
                 /\ update_time = <<HHMM(now - 30 * 60)>> /\ now % 60 = 0 => ~tried
                 /\ update_time = <<HHMM(now + 60)>> => tried]_vars

C29_Witness ==
    \E t \in Threads :
        /\ pc[t] = "apply"
        /\ now % 60 = 0
        /\ gold_source_settings.mode = "auto"
        /\ Len(invoked[t]) = 1
        /\ invoked[t][1].record.success
        /\ invoked[t][1].record.update_time = <<HHMM(now - 30 * 60)>>

\* C30: a successful record is stored with price_change derived from the
\* newest history entry whenever the source supplied no price_change, and
\* with today_change derived from the first history entry of the current
\* day whenever the source supplied no today_change, each whether or not
\* the other was supplied: amount the absolute delta of the bar-sell prices,
\* direction by its sign, and amount 0 with direction unchanged for a zero
\* delta or a missing reference entry.
C30_DerivedIndependently ==
    [][\A t \in Threads :
          ApplyStep(t) /\ result[t][1].success =>
              LET r == result[t][1]
                  new == r.gold_bar.sell[1]
                  today == {i \in 1..Len(price_history) :
                               DateOf(price_history[i].timestamp[1]) = DateOf(now)}
                  first == CHOOSE i \in today : \A j \in today : i <= j
                  Delta(d) == [amount |-> IF d < 0 THEN 0 - d ELSE d,
                               direction |-> IF d > 0 THEN "up"
                                             ELSE IF d < 0 THEN "down"
                                             ELSE "unchanged"]
              IN  /\ r.price_change.amount = 0
                        => current_price'[1].price_change =
                              IF price_history = <<>> THEN Delta(0)
                              ELSE Delta(new - price_history[Len(price_history)]
                                                  .gold_bar.sell[1])
                  /\ r.today_change.amount = 0
                        => current_price'[1].today_change =
                              IF today = {} THEN Delta(0)
                              ELSE Delta(new - price_history[first].gold_bar.sell[1])]_vars

\* C31: the timestamps of the history entries never decrease from the
\* oldest entry to the newest, and a snapshot is never replaced by one with
\* an older timestamp, whatever the interleaving of ticks and forced
\* refreshes.
C31_TimeOrdered ==
    /\ [](\A i \in 1..(Len(price_history) - 1) :
            price_history[i].timestamp[1] <= price_history[i + 1].timestamp[1])
    /\ [][current_price # <<>> /\ current_price' # <<>>
            => current_price[1].timestamp[1] <= current_price'[1].timestamp[1]]_vars

\* C32: the period with which the scheduler fires the fetch job is
\* current_interval in every state, in particular after a settings update
\* that changed the base interval.
C32_SchedulerFollowsInterval ==
    job_interval = adaptive_settings.current_interval

\* C33: base_interval lies in 60..600 and current_interval is base_interval
\* times 1, 3, 5 or 10, hence in 60..6000, in every state that fetches and
\* accepted or rejected settings updates lead to.
C33_IntervalRange ==
    /\ adaptive_settings.base_interval \in 60..600
    /\ \E k \in {1, 3, 5, 10} :
          adaptive_settings.current_interval = adaptive_settings.base_interval * k
    /\ adaptive_settings.current_interval \in 60..6000

C33_Witness ==
    /\ request["req"] = <<[NoSettings EXCEPT !.base_interval = <<59>>]>>
    /\ response["req"].kind = "bad_interval"
    /\ pc["sched"] = "flushchk"
    /\ result["sched"][1].success
    /\ adaptive_settings.base_interval = 60
    /\ adaptive_settings.current_interval = 600

\* C34: from the first successful fetch on, last_change_count is the
\* change_count of the current snapshot and of the newest history entry,
\* whatever the interleaving of ticks and forced refreshes.
C34_CountsAgree ==
    current_price # <<>> =>
        /\ adaptive_settings.last_change_count = <<current_price[1].change_count>>
        /\ price_history # <<>>
        /\ price_history[Len(price_history)].change_count
              = current_price[1].change_count

C34_Witness ==
    /\ pc["sched"] = "flushchk"
    /\ pc["req"] = "flushchk"
    /\ result["sched"][1].success
    /\ result["req"][1].success
    /\ result["sched"][1].change_count # result["req"][1].change_count
    /\ Len(price_history) = 2
    /\ current_price # <<>>
    /\ current_price[1].change_count = 5
    /\ price_history[1].change_count = 6
    /\ price_history[2].change_count = 5
    /\ adaptive_settings.last_change_count = <<5>>

\* C35: no two adjacent history entries carry the same change_count, also
\* when the history was restored from the file at start-up and extended by
\* later fetches.
C35_NoAdjacentRepeat ==
    \A i \in 1..(Len(price_history) - 1) :
        price_history[i].change_count # price_history[i + 1].change_count

\* C36: the lock has at most one holder and is taken only when it is free;
\* a thread that holds it from one step to the next can always take its
\* next step, which needs no second acquisition, and the handler leaves the
\* settings update - accepted or rejected - and the rate-limited refresh
\* without the lock.
C36_NoLockDeadlock ==
    /\ [](Cardinality({t \in Threads : HoldsLock(t)}) <= 1)
    /\ [](\A t \in Requesters :
            HoldsLock(t) => ENABLED (SettingsWeekday(t) \/ SettingsWeekend(t)))
    /\ [][\A t \in Threads : ~HoldsLock(t) /\ HoldsLock(t)' => LockFree]_vars
    /\ [][\A t \in Requesters :
            /\ response'[t] # response[t]
            /\ response'[t].kind \in {"bad_interval", "bad_mode", "rate_limited",
                                      "settings_updated", "refreshed"}
            => ~HoldsLock(t)' /\ LockFree']_vars

C36_Witness ==
    /\ pc["req"] = "settings_weekend"
    /\ pc["sched"] = "apply"
    /\ HoldsLock("req")
    /\ response["req"].kind = "rate_limited"

\* C37: after every settings update, accepted or rejected, each window of
\* the quiet-hours configuration has its enabled flag and an HH:MM start and
\* end, and no scheduled tick fails in the quiet-hours gate.
C37_QuietHoursWellFormed ==
    /\ \A day \in {"weekday", "weekend"} :
          /\ quiet_hours_settings[day].enabled \in BOOLEAN
          /\ Len(quiet_hours_settings[day].start) = 2
          /\ Len(quiet_hours_settings[day].end) = 2
    /\ pc["sched"] # "crashed"

====
